---- MODULE Spec2Model ----
(***************************************************************************)
(* A model of the z.ai -> OpenAI protocol translation gateway:             *)
(*   - SSEParser (src/app/utils/sse_parser.ts): the event-stream lexer,    *)
(*   - StreamResponseHandler and NonStreamResponseHandler                  *)
(*     (src/unnamed/part_000): the stream and the aggregate translator,    *)
(*     with the glm_block fragment reassembly they share.                  *)
(* Texts are TLA+ strings; the string operators below compute what the     *)
(* JavaScript string methods used by the code compute.                     *)
(***************************************************************************)
EXTENDS Integers, Sequences, FiniteSets, TLC

(***************************************************************************)
(* JavaScript string methods                                               *)
(***************************************************************************)
Char(s, i) == SubSeq(s, i, i)

IsSpace(c) == c \in {" ", "\n", "\t", "\r"}

RECURSIVE TrimStart(_)
TrimStart(s) ==
  IF Len(s) > 0 /\ IsSpace(Char(s, 1)) THEN TrimStart(SubSeq(s, 2, Len(s))) ELSE s

RECURSIVE TrimEnd(_)
TrimEnd(s) ==
  IF Len(s) > 0 /\ IsSpace(Char(s, Len(s))) THEN TrimEnd(SubSeq(s, 1, Len(s) - 1)) ELSE s

\* String.prototype.trim
Trim(s) == TrimEnd(TrimStart(s))

\* String.prototype.startsWith
StartsWith(s, p) == Len(s) >= Len(p) /\ SubSeq(s, 1, Len(p)) = p

\* String.prototype.endsWith
EndsWith(s, p) == Len(s) >= Len(p) /\ SubSeq(s, Len(s) - Len(p) + 1, Len(s)) = p

\* String.prototype.indexOf(p, from), 1-based; 0 when p does not occur
FirstOf(found) == IF found = {} THEN 0 ELSE CHOOSE i \in found : \A j \in found : i <= j

IndexFrom(s, p, from) ==
  FirstOf({i \in from..(Len(s) - Len(p) + 1) : SubSeq(s, i, i + Len(p) - 1) = p})

IndexOf(s, p) == IndexFrom(s, p, 1)

\* s.split(sep)[0]: the text before the first occurrence of sep
Before(s, k) == IF k = 0 THEN s ELSE SubSeq(s, 1, k - 1)

SplitFirst(s, sep) == Before(s, IndexOf(s, sep))

\* s.split(sep): every piece, in order
RECURSIVE Split(_, _)
SplitAt(s, sep, k) ==
  IF k = 0 THEN <<s>>
  ELSE <<SubSeq(s, 1, k - 1)>> \o Split(SubSeq(s, k + Len(sep), Len(s)), sep)

Split(s, sep) == SplitAt(s, sep, IndexOf(s, sep))

\* Array.prototype.join
RECURSIVE Join(_, _)
Join(parts, sep) ==
  IF Len(parts) = 0 THEN ""
  ELSE IF Len(parts) = 1 THEN parts[1]
  ELSE parts[1] \o sep \o Join(Tail(parts), sep)

(***************************************************************************)
(* JSON.parse on a text: objects, arrays, strings with escapes, integers   *)
(* and the three literals. A parse result is [ok, v, pos]; values are      *)
(* tagged records.                                                         *)
(***************************************************************************)
JStr(s) == [t |-> "string", s |-> s]
JNum(s) == [t |-> "number", s |-> s]
JLit(s) == [t |-> "literal", s |-> s]
JObj(members) == [t |-> "object", o |-> members]
JArr(elems) == [t |-> "array", a |-> elems]
JFail == [ok |-> FALSE, v |-> JLit("null"), pos |-> 0]
JOk(v, pos) == [ok |-> TRUE, v |-> v, pos |-> pos]

Digits == {"0", "1", "2", "3", "4", "5", "6", "7", "8", "9"}

RECURSIVE SkipWs(_, _)
SkipWs(s, i) == IF i <= Len(s) /\ IsSpace(Char(s, i)) THEN SkipWs(s, i + 1) ELSE i

Unescape(c) ==
  CASE c = "n" -> "\n"
    [] c = "t" -> "\t"
    [] c = "r" -> "\r"
    [] OTHER -> c

\* whether a raw control character stands in s[from..to]
HasControl(s, from, to) == \E k \in from..to : Char(s, k) \in {"\n", "\t", "\r"}

\* the body of a string literal from position i (after the opening quote),
\* read run by run: q is the next quote, b the next backslash (0 if none)
RECURSIVE ParseStringBody(_, _, _)
StringRun(s, i, acc, q, b) ==
  IF q = 0 THEN JFail
  ELSE IF b = 0 \/ b > q
       THEN IF HasControl(s, i, q - 1) THEN JFail
            ELSE JOk(JStr(acc \o SubSeq(s, i, q - 1)), q + 1)
  ELSE IF HasControl(s, i, b - 1) THEN JFail
  ELSE IF b + 1 <= Len(s) /\ Char(s, b + 1) \in {"\"", "\\", "/", "n", "t", "r"}
       THEN ParseStringBody(s, b + 2, acc \o SubSeq(s, i, b - 1) \o Unescape(Char(s, b + 1)))
       ELSE JFail

ParseStringBody(s, i, acc) ==
  StringRun(s, i, acc, IndexFrom(s, "\"", i), IndexFrom(s, "\\", i))

RECURSIVE DigitsEnd(_, _)
DigitsEnd(s, i) == IF i <= Len(s) /\ Char(s, i) \in Digits THEN DigitsEnd(s, i + 1) ELSE i

NumberText(s, i, start, stop) ==
  IF stop = start \/ (stop - start > 1 /\ Char(s, start) = "0") THEN JFail
  ELSE JOk(JNum(SubSeq(s, i, stop - 1)), stop)

NumberFrom(s, i, start) == NumberText(s, i, start, DigitsEnd(s, start))

ParseNumber(s, i) == NumberFrom(s, i, IF Char(s, i) = "-" THEN i + 1 ELSE i)

\* whether text p stands in s at position i
At(s, i, p) == i + Len(p) - 1 <= Len(s) /\ SubSeq(s, i, i + Len(p) - 1) = p

ParseLiteral(s, i) ==
  IF At(s, i, "true") THEN JOk(JLit("true"), i + 4)
  ELSE IF At(s, i, "null") THEN JOk(JLit("null"), i + 4)
  ELSE IF At(s, i, "false") THEN JOk(JLit("false"), i + 5)
  ELSE JFail

RECURSIVE ParseValue(_, _)
RECURSIVE ParseMembers(_, _, _)
RECURSIVE ParseElements(_, _, _)

\* after a member: "}" ends the object, "," continues it
MoreMembers(s, got, e) ==
  IF e > Len(s) THEN JFail
  ELSE IF Char(s, e) = "}" THEN JOk(JObj(got), e + 1)
  ELSE IF Char(s, e) = "," THEN ParseMembers(s, e + 1, got)
  ELSE JFail

AfterMember(s, acc, name, val) ==
  IF ~val.ok THEN JFail
  ELSE MoreMembers(s, Append(acc, <<name, val.v>>), SkipWs(s, val.pos))

AfterColon(s, acc, name, c) ==
  IF c > Len(s) \/ Char(s, c) # ":" THEN JFail
  ELSE AfterMember(s, acc, name, ParseValue(s, c + 1))

AfterKey(s, acc, key) ==
  IF ~key.ok THEN JFail ELSE AfterColon(s, acc, key.v.s, SkipWs(s, key.pos))

KeyAt(s, k) ==
  IF k > Len(s) \/ Char(s, k) # "\"" THEN JFail ELSE ParseStringBody(s, k + 1, "")

\* the members of an object from position i (after "{" or after a ",")
ParseMembers(s, i, acc) == AfterKey(s, acc, KeyAt(s, SkipWs(s, i)))

\* after an element: "]" ends the array, "," continues it
MoreElements(s, got, e) ==
  IF e > Len(s) THEN JFail
  ELSE IF Char(s, e) = "]" THEN JOk(JArr(got), e + 1)
  ELSE IF Char(s, e) = "," THEN ParseElements(s, e + 1, got)
  ELSE JFail

AfterElement(s, acc, val) ==
  IF ~val.ok THEN JFail ELSE MoreElements(s, Append(acc, val.v), SkipWs(s, val.pos))

\* the elements of an array from position i (after "[" or after a ",")
ParseElements(s, i, acc) == AfterElement(s, acc, ParseValue(s, i))

\* a value that starts at position k with character c; n is the position of the
\* first non-blank character after k
ValueAt(s, k, c, n) ==
  IF c = "{"
  THEN IF n <= Len(s) /\ Char(s, n) = "}" THEN JOk(JObj(<<>>), n + 1)
       ELSE ParseMembers(s, k + 1, <<>>)
  ELSE IF c = "["
  THEN IF n <= Len(s) /\ Char(s, n) = "]" THEN JOk(JArr(<<>>), n + 1)
       ELSE ParseElements(s, k + 1, <<>>)
  ELSE IF c = "\"" THEN ParseStringBody(s, k + 1, "")
  ELSE IF c = "-" \/ c \in Digits THEN ParseNumber(s, k)
  ELSE ParseLiteral(s, k)

ValueFrom(s, k) ==
  IF k > Len(s) THEN JFail ELSE ValueAt(s, k, Char(s, k), SkipWs(s, k + 1))

ParseValue(s, i) == ValueFrom(s, SkipWs(s, i))

\* the whole text must be one value
WholeText(text, r) ==
  IF r.ok /\ SkipWs(text, r.pos) = Len(text) + 1 THEN r ELSE JFail

\* JSON.parse(text): ok = FALSE stands for the SyntaxError it throws
JSONparse(text) == WholeText(text, ParseValue(text, 1))

(***************************************************************************)
(* JavaScript property access and truthiness on parsed JSON values         *)
(***************************************************************************)
JUndefined == [t |-> "undefined", s |-> ""]

\* v[key]: the last member named key of an object, undefined otherwise
RECURSIVE Member(_, _, _)
Member(members, key, i) ==
  IF i = 0 THEN JUndefined
  ELSE IF members[i][1] = key THEN members[i][2]
  ELSE Member(members, key, i - 1)

Get(v, key) == IF v.t = "object" THEN Member(v.o, key, Len(v.o)) ELSE JUndefined

\* Boolean(v)
Truthy(v) ==
  CASE v.t \in {"object", "array"} -> TRUE
    [] v.t = "string" -> v.s # ""
    [] v.t = "number" -> v.s \notin {"0", "-0"}
    [] v.t = "literal" -> v.s = "true"
    [] OTHER -> FALSE

\* a || b
OrElse(a, b) == IF Truthy(a) THEN a ELSE b

\* the text a value shows as inside a template or an output field
ToText(v) == IF v.t \in {"string", "number", "literal"} THEN v.s ELSE "[" \o v.t \o "]"

DigitText(d) == SubSeq("0123456789", d + 1, d + 1)

\* String(n) for a natural number
RECURSIVE NatToText(_)
NatToText(n) == IF n < 10 THEN DigitText(n) ELSE NatToText(n \div 10) \o DigitText(n % 10)

(***************************************************************************)
(* Fragment reassembly: StreamResponseHandler._processMultipleToolCalls    *)
(* and NonStreamResponseHandler._processNonStreamMultipleToolCalls         *)
(***************************************************************************)
GlmOpenTag == "<glm_block"
GlmOpen == "<glm_block view=\"\">"
GlmClose == "</glm_block>"
ResultMarker == "\", \"result"

\* A JavaScript Map: the sequence of its <<key, value>> entries in insertion order
EmptyMap == <<>>

MapHas(map, key) == \E i \in 1..Len(map) : map[i][1] = key

MapGet(map, key) == map[CHOOSE i \in 1..Len(map) : map[i][1] = key][2]

\* map.set(key, value): a held key keeps its place, a new key goes last
MapSet(map, key, value) ==
  IF MapHas(map, key)
  THEN [i \in 1..Len(map) |-> IF map[i][1] = key THEN <<key, value>> ELSE map[i]]
  ELSE Append(map, <<key, value>>)

\* Array.from(map.keys())
MapKeys(map) == [i \in 1..Len(map) |-> map[i][1]]

\* the keys with the least one moved out
RECURSIVE Without(_, _)
Without(keys, m) ==
  IF Head(keys) = m THEN Tail(keys) ELSE <<Head(keys)>> \o Without(Tail(keys), m)

Least(keys) == CHOOSE m \in {keys[i] : i \in 1..Len(keys)} : \A j \in 1..Len(keys) : m <= keys[j]

\* the keys left in insertion order: the sort is missing
UnsortedIndices(keys) == keys

\* keys.sort((a, b) => a - b)
RECURSIVE SortedIndices(_)
LeastFirst(keys, m) == <<m>> \o SortedIndices(Without(keys, m))

SortedIndices(keys) == IF Len(keys) = 0 THEN <<>> ELSE LeastFirst(keys, Least(keys))

\* allIndices.map(index => fragments.get(index))
ValuesAt(fragments, allIndices) ==
  [i \in 1..Len(allIndices) |-> MapGet(fragments, allIndices[i])]

\* the fragment texts in ascending edit_index order
ContentArray(fragments) == ValuesAt(fragments, SortedIndices(MapKeys(fragments)))

\* the loop that joins glm_block fragments into accumulated blocks
RECURSIVE Accumulate(_, _, _)
AccumulateOne(rest, content, temp_content, tempArray, flushed) ==
  IF StartsWith(content, GlmOpenTag) THEN Accumulate(rest, content, flushed)
  ELSE IF temp_content # "" /\ EndsWith(content, GlmClose)
  THEN Accumulate(rest, SplitFirst(temp_content, ResultMarker) \o content, tempArray)
  ELSE Accumulate(rest, temp_content, tempArray)

Flushed(temp_content, tempArray) ==
  IF temp_content # "" THEN Append(tempArray, temp_content) ELSE tempArray

Accumulate(contentArray, temp_content, tempArray) ==
  IF Len(contentArray) = 0 THEN Flushed(temp_content, tempArray)
  ELSE AccumulateOne(Tail(contentArray), Trim(Head(contentArray)), temp_content,
                     tempArray, Flushed(temp_content, tempArray))

\* every accumulated block: tempArray.join("\n")
EveryBlock(tempArray) == Join(tempArray, "\n")

\* tempArray.slice(0, 1).join("\n")
FirstBlock(tempArray) == IF Len(tempArray) = 0 THEN "" ELSE tempArray[1]

FullContent(fragments) == FirstBlock(Accumulate(ContentArray(fragments), "", <<>>))

\* every capture of /<glm_block view="">([\s\S]*?)<\/glm_block>/g in s, from position from
RECURSIVE GlmBlockMatches(_, _)
MatchClosed(s, o, c) ==
  IF c = 0 THEN <<>>
  ELSE <<SubSeq(s, o + Len(GlmOpen), c - 1)>> \o GlmBlockMatches(s, c + Len(GlmClose))

MatchOpened(s, o) ==
  IF o = 0 THEN <<>> ELSE MatchClosed(s, o, IndexFrom(s, GlmClose, o + Len(GlmOpen)))

GlmBlockMatches(s, from) == MatchOpened(s, IndexFrom(s, GlmOpen, from))

\* parsed.data?.metadata
MetadataOfData(data) ==
  IF data.t = "undefined" \/ data = JLit("null") THEN JUndefined ELSE Get(data, "metadata")

\* parsed.data?.metadata || parsed.metadata || {}
Metadata(parsed) ==
  OrElse(OrElse(MetadataOfData(Get(parsed, "data")), Get(parsed, "metadata")), JObj(<<>>))

\* JSON.parse(text) succeeds
IsJson(text) == JSONparse(text).ok

\* the escaped form: JSON.parse(argsStr) is a text that is itself JSON
Unescaped(unescapedArgsStr) ==
  IF unescapedArgsStr.ok /\ unescapedArgsStr.v.t = "string" /\ IsJson(unescapedArgsStr.v.s)
  THEN unescapedArgsStr.v.s
  ELSE "{}"

\* the arguments text taken as it is, never unescaped
ArgsTextAsIs(argsStr) == argsStr

\* the text checked by the final JSON.parse of the arguments normalization
ArgsText(argsStr) ==
  IF StartsWith(argsStr, "\"") /\ EndsWith(argsStr, "\"")
  THEN Unescaped(JSONparse(argsStr))
  ELSE argsStr

Checked(text) == IF IsJson(text) THEN text ELSE "{}"

\* the arguments normalization: escaped or plain JSON text, "{}" on any failure
FinalArgs(argsStr) ==
  IF argsStr.t = "string" /\ Len(argsStr.s) > 0 /\ argsStr.s # "{}"
  THEN Checked(ArgsText(argsStr.s))
  ELSE "{}"

\* `call_${Date.now()}_${n}`
GeneratedId(now, n) == "call_" \o now \o "_" \o NatToText(n)

\* the tool call built from the metadata of a block
ToolOf(metadata, now, count) ==
  [id |-> ToText(OrElse(Get(metadata, "id"), JStr(GeneratedId(now, count + 1)))),
   name |-> ToText(OrElse(Get(metadata, "name"), JStr("unknown"))),
   arguments |-> FinalArgs(OrElse(Get(metadata, "arguments"), JStr("{}")))]

Skipped == [ok |-> FALSE, tool |-> [id |-> "", name |-> "", arguments |-> ""]]

Parsed(parsed, now, count) ==
  IF ~parsed.ok \/ parsed.v = JLit("null") THEN Skipped
  ELSE [ok |-> TRUE, tool |-> ToolOf(Metadata(parsed.v), now, count)]

\* one glm_block body: [ok, tool]; ok = FALSE when the block is skipped by the catch
ParseBlock(blockContent, now, count) == Parsed(JSONparse(blockContent), now, count)

\* the while loop of the stream translator: every parsed block is pushed
RECURSIVE CollectToolCalls(_, _, _)
Pushed(toolCalls, b) == IF b.ok THEN Append(toolCalls, b.tool) ELSE toolCalls

CollectToolCalls(blocks, now, toolCalls) ==
  IF Len(blocks) = 0 THEN toolCalls
  ELSE CollectToolCalls(Tail(blocks), now,
                        Pushed(toolCalls, ParseBlock(Head(blocks), now, Len(toolCalls))))

\* the invocations the stream translator resolves from its fragment map
ResolveToolCalls(fragments, now) ==
  IF Len(fragments) = 0 THEN <<>>
  ELSE CollectToolCalls(GlmBlockMatches(FullContent(fragments), 1), now, <<>>)

(***************************************************************************)
(* Upstream payloads.                                                      *)
(* A `data` line value is either a text (kind "text": its JSON-ness is     *)
(* decided by JSONparse) or a JSON object (kind "object") given by its     *)
(* fields; `absent` names the fields the object does not carry.            *)
(***************************************************************************)
Null == [null |-> TRUE]

Phases == {"thinking", "answer", "tool_call", "other", "done", "unknown"}

Usage(n) == [prompt_tokens |-> n, completion_tokens |-> n, total_tokens |-> 2 * n]

UpstreamError(detail) == [code |-> 500, detail |-> detail]

\* a JSON object of the upstream shape with every required field present
Payload(phase) ==
  [kind |-> "object", raw |-> "", absent |-> {}, type |-> "chat:completion",
   phase |-> phase, delta_content |-> "", edit_content |-> "", edit_index |-> <<>>,
   done |-> FALSE, usage |-> Null, error |-> Null, data_error |-> Null,
   inner_error |-> Null, finish_reason |-> ""]

\* a `data` line value that is a text, not an object
TextValue(raw) == [Payload("unknown") EXCEPT !.kind = "text", !.raw = raw]

\* the fields UpstreamDataSchema requires (spec section 6, payload shape)
RequiredFields == {"type", "data", "delta_content", "edit_content", "phase", "done"}

\* UpstreamDataSchema.parse(event.data) succeeds
SchemaOk(w) ==
  /\ w.kind = "object"
  /\ w.absent \cap RequiredFields = {}
  /\ w.phase \in Phases

\* event.data?.data?.<field> is defined
HasDataField(w, f) == w.kind = "object" /\ "data" \notin w.absent /\ f \notin w.absent

\* a fallback that takes the text of a non-object value for answer text
RawTextAsContent(w) ==
  [type |-> "unknown", phase |-> IF w.kind = "text" THEN "answer" ELSE "unknown",
   delta_content |-> IF w.kind = "text" THEN w.raw ELSE "", edit_content |-> "",
   edit_index |-> <<>>, done |-> FALSE, usage |-> Null, error |-> Null,
   data_error |-> Null, inner_error |-> Null, finish_reason |-> ""]

\* the object built in the catch of UpstreamDataSchema.parse
FallbackData(w) ==
  [type |-> IF w.kind = "object" /\ "type" \notin w.absent /\ w.type # ""
            THEN w.type ELSE "unknown",
   phase |-> IF HasDataField(w, "phase") /\ w.phase # "" THEN w.phase ELSE "unknown",
   delta_content |-> IF HasDataField(w, "delta_content") THEN w.delta_content ELSE "",
   edit_content |-> IF HasDataField(w, "edit_content") THEN w.edit_content ELSE "",
   edit_index |-> <<>>,
   done |-> HasDataField(w, "done") /\ w.done,
   usage |-> IF HasDataField(w, "usage") THEN w.usage ELSE Null,
   error |-> IF w.kind = "object" THEN w.error ELSE Null,
   data_error |-> IF HasDataField(w, "error") THEN w.data_error ELSE Null,
   inner_error |-> IF HasDataField(w, "inner") THEN w.inner_error ELSE Null,
   finish_reason |-> ""]

\* the validated object
ValidData(w) ==
  [type |-> w.type, phase |-> w.phase, delta_content |-> w.delta_content,
   edit_content |-> w.edit_content, edit_index |-> w.edit_index, done |-> w.done,
   usage |-> w.usage, error |-> w.error, data_error |-> w.data_error,
   inner_error |-> w.inner_error, finish_reason |-> w.finish_reason]

\* upstreamData of one event: validate, else fall back to the raw fields
Decode(w) == IF SchemaOk(w) THEN ValidData(w) ELSE FallbackData(w)

\* the default payload of the decoder
DefaultData == FallbackData(TextValue(""))

\* SSEParser.iterEvents, the `data` field: the record yielded for a value
DataEvent(w) ==
  [type |-> "data", data |-> w, raw |-> w.raw,
   is_json |-> w.kind = "object" \/ JSONparse(w.raw).ok]

\* SSEParser.iterJsonData: the record handed to the translator
JsonDataEvent(ev) ==
  IF ev.is_json THEN ev
  ELSE IF JSONparse(ev.raw).ok THEN [ev EXCEPT !.is_json = TRUE]
  ELSE ev

\* an error check that looks at the top level only
TopLevelErrorOnly(d) == d.error # Null

_hasError(d) == d.error # Null \/ d.data_error # Null \/ d.inner_error # Null

_getError(d) ==
  IF d.error # Null THEN d.error
  ELSE IF d.data_error # Null THEN d.data_error
  ELSE d.inner_error

(***************************************************************************)
(* Output chunks of the stream translator                                  *)
(***************************************************************************)
RoleChunk == [kind |-> "role", role |-> "assistant"]
ContentChunk(text) == [kind |-> "content", text |-> text]
ReasoningChunk(text) == [kind |-> "reasoning_content", text |-> text]
ToolStartedChunk(i, tool) ==
  [kind |-> "tool_calls", part |-> "started", index |-> i, id |-> tool.id,
   name |-> tool.name, arguments |-> ""]
ToolArgsChunk(i, tool) ==
  [kind |-> "tool_calls", part |-> "arguments", index |-> i, id |-> tool.id,
   name |-> "", arguments |-> tool.arguments]
InlineToolChunk(i, tc) ==
  [kind |-> "tool_calls", part |-> "inline", index |-> i, id |-> tc.id,
   name |-> tc.name, arguments |-> tc.arguments]
FinishChunk(reason, usage) == [kind |-> "finish", finish_reason |-> reason, usage |-> usage]
DoneSentinel == [kind |-> "[DONE]"]
ErrorEvent(message) == [kind |-> "error", error |-> message]

\* handleUpstreamError: a stop chunk, then the sentinel
handleUpstreamError == <<FinishChunk("stop", Null), DoneSentinel>>

(***************************************************************************)
(* External collaborators (utils/helpers.ts, utils/tools.ts). `ext` is the *)
(* way they behave in one step: "plain" (text kept, no inline tool call    *)
(* found), "drops" (they return empty text), "inline_calls" (the extractor *)
(* finds a tool call in the buffered text) or "throws".                    *)
(***************************************************************************)
ExtOutcomes == {"plain", "drops", "inline_calls", "throws"}

transformThinkingContent(content, ext) == IF ext = "drops" THEN "" ELSE content

extractToolInvocations(bufferedText, ext) ==
  IF ext = "inline_calls"
  THEN <<[id |-> "call_inline", name |-> "g", arguments |-> "{}"]>>
  ELSE <<>>

removeToolJsonContent(bufferedText, ext) == IF ext = "drops" THEN "" ELSE bufferedText

(***************************************************************************)
(* StreamResponseHandler: the run state is the record                      *)
(* [hasTools, bufferedContent, toolUsage, toolCallFragments,               *)
(*  toolCallFinishReceived, streamEnded]; every generator below returns    *)
(* [st, out, thrown]: the state it leaves, the chunks it yields and        *)
(* whether it ended by throwing.                                           *)
(***************************************************************************)
Yield(st, out) == [st |-> st, out |-> out, thrown |-> FALSE]
Throw(st, out) == [st |-> st, out |-> out, thrown |-> TRUE]

\* editContent.split("</details>")[1], or ""
_extractEditContent(editContent) ==
  LET parts == Split(editContent, "</details>")
  IN IF Len(parts) > 1 THEN parts[2] ELSE ""

\* edit_index, 0 when the payload has none
EditIndex(d) == IF d.edit_index = <<>> THEN 0 ELSE d.edit_index[1]

\* the non-tool branch without its answer case: only thinking text is sent
LiveChunksThinkingOnly(d, processedContent, sentInitialAnswer) ==
  IF d.delta_content # "" /\ processedContent # "" /\ d.phase = "thinking"
  THEN <<ReasoningChunk(processedContent)>>
  ELSE <<>>

\* the non-tool branch sending the delta of every phase but thinking as content
LiveChunksAnyPhase(d, processedContent, sentInitialAnswer) ==
  IF d.delta_content # "" /\ processedContent # ""
  THEN IF d.phase = "thinking" THEN <<ReasoningChunk(processedContent)>>
       ELSE <<ContentChunk(processedContent)>>
  ELSE <<>>

\* the chunks of the non-tool branch of _processContent
LiveChunks(d, processedContent, sentInitialAnswer) ==
  LET extractedContent == _extractEditContent(d.edit_content)
      initial == IF ~sentInitialAnswer /\ d.edit_content # "" /\ d.phase = "answer"
                    /\ extractedContent # ""
                 THEN <<ContentChunk(extractedContent)>> ELSE <<>>
      delta == IF d.delta_content # "" /\ processedContent # ""
               THEN IF d.phase = "thinking" THEN <<ReasoningChunk(processedContent)>>
                    ELSE IF d.phase = "answer" THEN <<ContentChunk(processedContent)>>
                    ELSE <<>>
               ELSE <<>>
  IN initial \o delta

_processContent(st, d, sentInitialAnswer, ext) ==
  LET content == IF d.delta_content # "" THEN d.delta_content ELSE d.edit_content
      afterAnswer ==
        IF d.phase = "answer"
        THEN [st EXCEPT !.toolUsage = IF d.usage # Null THEN d.usage ELSE @,
                        !.toolCallFinishReceived = @ \/ d.finish_reason = "stop"]
        ELSE st
      processedContent ==
        IF d.phase = "thinking" THEN transformThinkingContent(content, ext) ELSE content
  IN IF content = "" /\ d.phase # "tool_call" THEN Yield(st, <<>>)
     ELSE IF d.phase = "tool_call"
     THEN Yield([st EXCEPT !.hasTools = TRUE,
                           !.toolCallFragments =
                              IF d.edit_content # ""
                              THEN MapSet(@, EditIndex(d), d.edit_content) ELSE @],
                <<>>)
     ELSE IF d.phase = "answer" /\ d.finish_reason # "" THEN Yield(afterAnswer, <<>>)
     ELSE IF d.phase = "other" /\ d.usage # Null
     THEN Yield([afterAnswer EXCEPT !.toolUsage = d.usage], <<>>)
     ELSE IF d.phase = "thinking" /\ ext = "throws" THEN Throw(afterAnswer, <<>>)
     ELSE IF afterAnswer.hasTools
     THEN Yield([afterAnswer EXCEPT !.bufferedContent =
                    IF d.phase = "answer" THEN @ \o processedContent ELSE @], <<>>)
     ELSE Yield(afterAnswer, LiveChunks(d, processedContent, sentInitialAnswer))

\* s.replace(/<glm_block[\s\S]*?<\/glm_block>/g, '')
RECURSIVE RemoveGlmBlocks(_)
RemoveGlmBlocks(s) ==
  LET o == IndexOf(s, GlmOpenTag)
  IN IF o = 0 THEN s
     ELSE LET c == IndexFrom(s, GlmClose, o + Len(GlmOpenTag))
          IN IF c = 0 THEN s
             ELSE SubSeq(s, 1, o - 1)
                  \o RemoveGlmBlocks(SubSeq(s, c + Len(GlmClose), Len(s)))

\* every started increment first, then every arguments increment
StartedThenArguments(toolCalls, i) ==
  [k \in 1..Len(toolCalls) |-> ToolStartedChunk(k - 1, toolCalls[k])]
  \o [k \in 1..Len(toolCalls) |-> ToolArgsChunk(k - 1, toolCalls[k])]

\* the started and arguments increments of the resolved invocations, in order
RECURSIVE ToolCallChunks(_, _)
ToolCallChunks(toolCalls, i) ==
  IF i >= Len(toolCalls) THEN <<>>
  ELSE <<ToolStartedChunk(i, toolCalls[i + 1]), ToolArgsChunk(i, toolCalls[i + 1])>>
       \o ToolCallChunks(toolCalls, i + 1)

\* the first paragraph of the cleaned buffered text, if any
CleanChunks(bufferedContent, cleanContent) ==
  IF bufferedContent # "" /\ Trim(bufferedContent) # "" /\ cleanContent # ""
  THEN <<ContentChunk(SplitFirst(cleanContent, "\n\n"))>>
  ELSE <<>>

\* the buffered text sent after the tool calls: first paragraph, glm blocks removed
BufferedTextChunks(bufferedContent) ==
  CleanChunks(bufferedContent, Trim(RemoveGlmBlocks(bufferedContent)))

\* the part of _processMultipleToolCalls after the blocks are parsed
EmitToolCalls(st, toolCalls) ==
  IF Len(toolCalls) = 0 THEN Yield(st, <<>>)
  ELSE Yield([st EXCEPT !.streamEnded = TRUE],
             ToolCallChunks(toolCalls, 0)
             \o BufferedTextChunks(st.bufferedContent)
             \o <<FinishChunk("tool_calls", st.toolUsage), DoneSentinel>>)

_processMultipleToolCalls(st, now) ==
  IF Len(st.toolCallFragments) = 0 THEN Yield(st, <<>>)
  ELSE EmitToolCalls(st, ResolveToolCalls(st.toolCallFragments, now))

RECURSIVE InlineToolChunks(_, _)
InlineToolChunks(calls, i) ==
  IF i >= Len(calls) THEN <<>>
  ELSE <<InlineToolChunk(i, calls[i + 1])>> \o InlineToolChunks(calls, i + 1)

\* the part of _sendEndChunk after the buffered text went through the extractor
EndChunks(st, calls, trimmedContent) ==
  (IF ~st.hasTools THEN <<>>
   ELSE IF Len(calls) > 0 THEN InlineToolChunks(calls, 0)
   ELSE IF trimmedContent # "" THEN <<ContentChunk(trimmedContent)>>
   ELSE <<>>)
  \o <<FinishChunk(IF st.hasTools /\ Len(calls) > 0 THEN "tool_calls" ELSE "stop", Null),
       DoneSentinel>>

_sendEndChunk(st, ext) ==
  IF st.streamEnded THEN Yield(st, <<>>)
  ELSE IF st.hasTools /\ ext = "throws" THEN Throw(st, <<>>)
  ELSE Yield([st EXCEPT !.streamEnded = TRUE],
             EndChunks(st, extractToolInvocations(st.bufferedContent, ext),
                       removeToolJsonContent(st.bufferedContent, ext)))

\* a catch block that logs the fault and emits nothing
CatchSilently(st, out) == [st |-> [st EXCEPT !.streamEnded = TRUE], out |-> out]

\* the catch block of handle: a forced stop close unless the run is closed
CatchStreamError(st, out) ==
  IF ~st.streamEnded
  THEN [st |-> [st EXCEPT !.streamEnded = TRUE],
        out |-> out \o <<FinishChunk("stop", Null), DoneSentinel>>]
  ELSE [st |-> st, out |-> out]

\* the two conditions under which the loop body runs _processMultipleToolCalls
ToolCallsDue(st, d) ==
  \/ /\ st.toolCallFinishReceived
     /\ d.phase # "tool_call"
     /\ st.hasTools
     /\ Len(st.toolCallFragments) > 0
  \/ /\ d.done \/ d.phase = "done"
     /\ st.hasTools
     /\ Len(st.toolCallFragments) > 0

\* a close after which the loop goes on to the next payload
LeaveWithoutBreak(before, g, streamEndedAfter) ==
  [st |-> [g.st EXCEPT !.streamEnded = @ \/ streamEndedAfter], out |-> before \o g.out,
   exit |-> IF g.thrown THEN "throw" ELSE "continue"]

\* a close that neither marks the run ended nor leaves the loop
LeaveOpen(before, g, streamEndedAfter) ==
  [st |-> [g.st EXCEPT !.streamEnded = FALSE], out |-> before \o g.out, exit |-> "continue"]

\* leave the loop body after generator g: what was yielded before it, then its chunks
Leave(before, g, streamEndedAfter) ==
  IF g.thrown THEN [st |-> g.st, out |-> before \o g.out, exit |-> "throw"]
  ELSE [st |-> [g.st EXCEPT !.streamEnded = @ \/ streamEndedAfter],
        out |-> before \o g.out, exit |-> "break"]

\* the loop body after _processContent
Processed(d, content, ext, now) ==
  IF content.thrown THEN [st |-> content.st, out |-> content.out, exit |-> "throw"]
  ELSE IF content.st.streamEnded
  THEN [st |-> content.st, out |-> content.out, exit |-> "break"]
  ELSE IF ToolCallsDue(content.st, d)
  THEN Leave(content.out, _processMultipleToolCalls(content.st, now), FALSE)
  ELSE IF d.done \/ d.phase = "done"
  THEN Leave(content.out, _sendEndChunk(content.st, ext), TRUE)
  ELSE [st |-> content.st, out |-> content.out, exit |-> "continue"]

\* the loop body after the payload is decoded
Decoded(st, upstreamData, sentInitialAnswer, ext, now) ==
  IF _hasError(upstreamData)
  THEN [st |-> [st EXCEPT !.streamEnded = TRUE],
        out |-> IF ~st.streamEnded THEN handleUpstreamError ELSE <<>>,
        exit |-> "break"]
  ELSE Processed(upstreamData, _processContent(st, upstreamData, sentInitialAnswer, ext),
                 ext, now)

\* one iteration of the for-await loop of handle: [st, out, exit], exit being
\* "continue", "break" or "throw" (control reaches the catch block)
LoopBody(st, w, sentInitialAnswer, ext, now) ==
  Decoded(st, Decode(JsonDataEvent(DataEvent(w)).data), sentInitialAnswer, ext, now)

(***************************************************************************)
(* SSEParser.iterEvents: the lexer, on texts of one-byte characters        *)
(***************************************************************************)
\* an optional value: <<>> stands for null / undefined / NaN, <<x>> for x
None == <<>>
Some(x) == <<x>>

\* the number the digits s[i..stop-1] write
RECURSIVE DigitsValue(_, _, _, _)
DigitsValue(s, i, stop, acc) ==
  IF i >= stop THEN acc
  ELSE DigitsValue(s, i + 1, stop, 10 * acc + (IndexOf("0123456789", Char(s, i)) - 1))

IntPrefix(value, start, stop) ==
  IF stop = start THEN None
  ELSE Some((IF Char(value, 1) = "-" THEN -1 ELSE 1) * DigitsValue(value, start, stop, 0))

\* parseInt(value, 10) on a trimmed text: None is NaN
SignLen(value) == IF Len(value) > 0 /\ Char(value, 1) \in {"-", "+"} THEN 1 ELSE 0

parseInt(value) ==
  IntPrefix(value, SignLen(value) + 1, DigitsEnd(value, SignLen(value) + 1))

\* the record of a `data` field: JSON.parse decides is_json
DataRecord(value, parsed) ==
  IF parsed.ok THEN [type |-> "data", data |-> parsed.v, raw |-> value, is_json |-> TRUE]
  ELSE [type |-> "data", data |-> JStr(value), raw |-> value, is_json |-> FALSE]

\* the records one field: value pair yields
FieldRecords(field, value) ==
  IF field = "data"
  THEN IF Trim(value) = "" THEN <<>> ELSE <<DataRecord(value, JSONparse(value))>>
  ELSE IF field = "event" THEN <<[type |-> "event", event |-> value]>>
  ELSE IF field = "id" THEN <<[type |-> "id", id |-> value]>>
  ELSE IF field = "retry" THEN <<[type |-> "retry", retry |-> parseInt(value)]>>
  ELSE <<>>

SplitField(line, colonIndex) ==
  IF colonIndex = 0 THEN <<>>
  ELSE FieldRecords(Trim(SubSeq(line, 1, colonIndex - 1)),
                    Trim(SubSeq(line, colonIndex + 1, Len(line))))

\* the records one complete line yields: blank and comment lines yield none
LineRecords(line) ==
  IF Trim(line) = "" THEN <<>>
  ELSE IF StartsWith(line, ":") THEN <<>>
  ELSE SplitField(line, IndexOf(line, ":"))

\* the records of every line but the last
RECURSIVE CompleteLines(_, _)
CompleteLines(lines, i) ==
  IF i >= Len(lines) THEN <<>> ELSE LineRecords(lines[i]) \o CompleteLines(lines, i + 1)

\* lines.pop() || "" is kept as the buffer, the other lines are consumed
Consumed(lines) == [records |-> CompleteLines(lines, 1), buffer |-> lines[Len(lines)]]

\* a read loop that treats the last piece as a complete line and keeps nothing
ProcessChunkNoCarry(buffer, chunk) ==
  [records |-> CompleteLines(Split(buffer \o chunk, "\n") \o <<"">>, 1), buffer |-> ""]

\* one turn of the read loop: buffer += chunk, split on "\n", keep the last piece
ProcessChunk(buffer, chunk) == Consumed(Split(buffer \o chunk, "\n"))

(***************************************************************************)
(* The stream reader of iterEvents: whether its lock is held, and how many *)
(* times getReader and releaseLock ran                                     *)
(***************************************************************************)
NoReader == [held |-> FALSE, acquired |-> 0, released |-> 0]

\* const reader = this.response.body.getReader()
getReader(rd) == [rd EXCEPT !.held = TRUE, !.acquired = @ + 1]

\* finally { reader.releaseLock() }
releaseLock(rd) == [rd EXCEPT !.held = FALSE, !.released = @ + 1]

\* the first next() starts the generator body, which acquires the reader
Pulled(rd) == IF rd.acquired = 0 THEN getReader(rd) ELSE rd

\* a for-await that leaves its loop without closing the iterator
IteratorLeftOpen(rd) == rd

\* the for-await loop is left by break, return or throw: the iterator's return()
\* resumes the generator parked at its yield, whose finally block runs
IteratorReturn(rd) == IF rd.held THEN releaseLock(rd) ELSE rd

(***************************************************************************)
(* NonStreamResponseHandler: the run state is the record                   *)
(* [hasTools, nsToolOrder, nsToolNames, nsToolArgs, nsUsage,               *)
(*  nsToolCallFragments, nsToolCallFinishReceived, fullContent]            *)
(***************************************************************************)
\* if (!nsToolOrder.includes(toolId)) { push, set name, set arguments }
NsPushed(ns, b) ==
  IF ~b.ok \/ \E i \in 1..Len(ns.nsToolOrder) : ns.nsToolOrder[i] = b.tool.id THEN ns
  ELSE [ns EXCEPT !.nsToolOrder = Append(@, b.tool.id),
                  !.nsToolNames = MapSet(@, b.tool.id, b.tool.name),
                  !.nsToolArgs = MapSet(@, b.tool.id, b.tool.arguments)]

\* the while loop of the aggregate translator: a block whose id is held is skipped
RECURSIVE NsCollect(_, _, _)
NsCollect(blocks, now, ns) ==
  IF Len(blocks) = 0 THEN ns
  ELSE NsCollect(Tail(blocks), now,
                 NsPushed(ns, ParseBlock(Head(blocks), now, Len(ns.nsToolOrder))))

_processNonStreamMultipleToolCalls(ns, now) ==
  IF Len(ns.nsToolCallFragments) = 0 THEN ns
  ELSE NsCollect(GlmBlockMatches(FullContent(ns.nsToolCallFragments), 1), now, ns)

\* `call_${Date.now()}_${Math.floor(Math.random() * 1000)}`
RandomId(now, rnd) == "call_" \o now \o "_" \o NatToText(rnd)

\* id and name from the first block; a generated id and "unknown" when its
\* JSON does not parse
FirstTool(parsed, now, rnd) ==
  IF ~parsed.ok \/ parsed.v = JLit("null")
  THEN [id |-> RandomId(now, rnd), name |-> "unknown"]
  ELSE [id |-> ToText(OrElse(Get(Metadata(parsed.v), "id"), JStr(RandomId(now, rnd)))),
        name |-> ToText(OrElse(Get(Metadata(parsed.v), "name"), JStr("unknown")))]

\* the arguments fragment a block adds: its arguments when its id is toolId or
\* empty
ArgsFragment(metadata, toolId) ==
  IF /\ Truthy(Get(metadata, "arguments"))
     /\ ToText(OrElse(Get(metadata, "id"), JStr(""))) \in {toolId, ""}
  THEN <<ToText(Get(metadata, "arguments"))>>
  ELSE <<>>

ArgsFragmentOf(parsed, toolId) ==
  IF ~parsed.ok \/ parsed.v = JLit("null") THEN <<>>
  ELSE ArgsFragment(Metadata(parsed.v), toolId)

\* allArgsFragments: the arguments of every block of the tool, in order
RECURSIVE AllArgsFragments(_, _)
AllArgsFragments(blocks, toolId) ==
  IF Len(blocks) = 0 THEN <<>>
  ELSE ArgsFragmentOf(JSONparse(Head(blocks)), toolId)
       \o AllArgsFragments(Tail(blocks), toolId)

\* fullContent.match(/"arguments":\s*"([^"]*(?:\\.[^"]*)*)"/): the capture runs
\* from the opening quote to the next quote
ArgumentsCapture(fullContent, open) ==
  SubSeq(fullContent, open + 1, IndexFrom(fullContent, "\"", open + 1) - 1)

ArgumentsMatch(fullContent) ==
  { SkipWs(fullContent, k + 12) :
      k \in { i \in 1..(Len(fullContent) - 12) :
                /\ SubSeq(fullContent, i, i + 11) = "\"arguments\":"
                /\ SkipWs(fullContent, i + 12) <= Len(fullContent)
                /\ Char(fullContent, SkipWs(fullContent, i + 12)) = "\""
                /\ IndexFrom(fullContent, "\"", SkipWs(fullContent, i + 12) + 1) # 0 } }

\* the joined fragments, or what the match finds when there are none
FullArgsStr(fullContent, joined, found) ==
  IF Trim(joined) # "" THEN joined
  ELSE IF found # {} THEN ArgumentsCapture(fullContent, FirstOf(found))
  ELSE joined

\* the text as it is when it is JSON, unescaped when it is the content of a
\* JSON string holding JSON, "{}" otherwise
UnescapedArgs(unescaped) ==
  IF unescaped.ok /\ unescaped.v.t = "string" /\ IsJson(unescaped.v.s)
  THEN unescaped.v.s ELSE "{}"

FallbackArgs(fullArgsStr) ==
  IF Len(fullArgsStr) = 0 THEN "{}"
  ELSE IF IsJson(fullArgsStr) THEN fullArgsStr
  ELSE UnescapedArgs(JSONparse("\"" \o fullArgsStr \o "\""))

\* the invocation put together from the blocks of the joined fragments
FallbackTool(fullContent, blocks, tool) ==
  [ok |-> TRUE,
   tool |-> [id |-> tool.id, name |-> tool.name,
             arguments |-> FallbackArgs(FullArgsStr(fullContent,
                                                    Join(AllArgsFragments(blocks, tool.id), ""),
                                                    ArgumentsMatch(fullContent)))]]

FallbackOver(ns, fullContent, blocks, now, rnd) ==
  IF Len(blocks) = 0 THEN ns
  ELSE NsPushed(ns, FallbackTool(fullContent, blocks,
                                 FirstTool(JSONparse(blocks[1]), now, rnd)))

FallbackJoined(ns, fullContent, now, rnd) ==
  FallbackOver(ns, fullContent, GlmBlockMatches(fullContent, 1), now, rnd)

\* the second fallback: every fragment joined, id and name of the first block,
\* the arguments of every block of that id or of no id
_processNonStreamToolCallFragments(ns, now, rnd) ==
  FallbackJoined(ns, Join(ContentArray(ns.nsToolCallFragments), ""), now, rnd)

\* the answer-phase bookkeeping: usage and the finish signal
NsAnswer(ns, d) ==
  IF d.phase = "answer"
  THEN [ns EXCEPT !.nsUsage = IF d.usage # Null THEN d.usage ELSE @,
                  !.nsToolCallFinishReceived = @ \/ d.finish_reason = "stop"]
  ELSE ns

\* if (content) fullContent.push(content)
NsPushContent(ns, content) ==
  IF content # "" THEN [ns EXCEPT !.fullContent = Append(@, content)] ELSE ns

\* the delta_content of a payload that reaches the collection, whatever its phase
NsCollected(ns, d, ext) ==
  IF d.delta_content = "" THEN ns
  ELSE NsPushContent(ns, IF d.phase = "thinking"
                         THEN transformThinkingContent(d.delta_content, ext)
                         ELSE d.delta_content)

\* the reassembly run inside the loop once the finish signal is held
NsReassembled(ns, d, now) ==
  IF /\ ns.nsToolCallFinishReceived
     /\ d.phase # "tool_call"
     /\ ns.hasTools
     /\ Len(ns.nsToolCallFragments) > 0
  THEN _processNonStreamMultipleToolCalls(ns, now)
  ELSE ns

\* the loop body from the answer-phase bookkeeping on
NsContent(ns, d, ext, now) ==
  IF d.phase = "answer" /\ d.finish_reason # "" THEN [ns |-> ns, exit |-> "continue"]
  ELSE IF d.phase = "other" /\ d.usage # Null
  THEN [ns |-> [ns EXCEPT !.nsUsage = d.usage], exit |-> "continue"]
  ELSE IF d.delta_content # "" /\ d.phase = "thinking" /\ ext = "throws"
  THEN [ns |-> ns, exit |-> "throw"]
  ELSE [ns |-> NsReassembled(NsCollected(ns, d, ext), d, now),
        exit |-> IF d.done \/ d.phase = "done" THEN "break" ELSE "continue"]

\* the loop body after the payload is decoded
NsDecoded(ns, d, ext, now) ==
  IF ns.hasTools /\ d.phase = "tool_call" /\ d.edit_content # ""
  THEN [ns |-> [ns EXCEPT !.nsToolCallFragments = MapSet(@, EditIndex(d), d.edit_content)],
        exit |-> "continue"]
  ELSE NsContent(NsAnswer(ns, d), d, ext, now)

\* one iteration of the for-await loop of the aggregate translator
NsLoopBody(ns, w, ext, now) ==
  NsDecoded(ns, Decode(JsonDataEvent(DataEvent(w)).data), ext, now)

\* the check after the loop: fragments left unresolved are reassembled
NsFinal(ns, now) ==
  IF /\ ns.nsToolCallFinishReceived
     /\ ns.hasTools
     /\ Len(ns.nsToolCallFragments) > 0
     /\ Len(ns.nsToolOrder) = 0
  THEN _processNonStreamMultipleToolCalls(ns, now)
  ELSE ns

\* map.get(key) || fallback
GetOr(map, key, fallback) ==
  IF MapHas(map, key) /\ MapGet(map, key) # "" THEN MapGet(map, key) ELSE fallback

\* nsToolOrder.map(...): the tool-call list of the document
ToolList(ns) ==
  [i \in 1..Len(ns.nsToolOrder) |->
     [id |-> ns.nsToolOrder[i], type |-> "function",
      name |-> GetOr(ns.nsToolNames, ns.nsToolOrder[i], "unknown"),
      arguments |-> Checked(GetOr(ns.nsToolArgs, ns.nsToolOrder[i], "{}"))]]

\* cleanContent || null
CleanContent(cleanContent) == IF cleanContent # "" THEN Some(cleanContent) ELSE None

\* messageContent before the tool-call list is built
MessageContent(ns, finalContent) ==
  IF ns.hasTools /\ Len(ns.nsToolOrder) > 0
  THEN CleanContent(Trim(RemoveGlmBlocks(finalContent)))
  ELSE Some(finalContent)

\* a document that keeps the cleaned text beside the tool-call list
DocumentKeepsContent(ns) ==
  [status |-> 200,
   content |-> MessageContent(ns, Join(ns.fullContent, "")),
   tool_calls |-> IF ns.hasTools /\ Len(ns.nsToolOrder) > 0 THEN Some(ToolList(ns)) ELSE None,
   finish_reason |-> IF ns.hasTools /\ Len(ns.nsToolOrder) > 0 THEN "tool_calls" ELSE "stop",
   usage |-> IF ns.nsUsage # Null THEN ns.nsUsage ELSE Usage(0)]

\* the document built from the collected state
Document(ns) ==
  [status |-> 200,
   content |-> IF ns.hasTools /\ Len(ns.nsToolOrder) > 0 THEN None
               ELSE MessageContent(ns, Join(ns.fullContent, "")),
   tool_calls |-> IF ns.hasTools /\ Len(ns.nsToolOrder) > 0 THEN Some(ToolList(ns)) ELSE None,
   finish_reason |-> IF ns.hasTools /\ Len(ns.nsToolOrder) > 0 THEN "tool_calls" ELSE "stop",
   usage |-> IF ns.nsUsage # Null THEN ns.nsUsage ELSE Usage(0)]

\* the 502 document of a failed upstream call
ErrorDocument(message) ==
  [status |-> 502, content |-> None, tool_calls |-> None, finish_reason |-> "",
   usage |-> Null, error |-> message]

(***************************************************************************)
(* Inputs of the model                                                     *)
(***************************************************************************)
\* how many upstream payloads one run may receive
MaxEvents == 3

\* Date.now() as text
Clock == {"1700000000000"}

\* Scenario B's tool-call block
ToolBlock ==
  "<glm_block view=\"\">{\"metadata\":{\"id\":\"call_1\",\"name\":\"f\",\"arguments\":\"{\\\"x\\\":1}\"}}</glm_block>"

\* the block cut after its k-th character
BlockHead(k) == SubSeq(ToolBlock, 1, k)
BlockTail(k) == SubSeq(ToolBlock, k + 1, Len(ToolBlock))

AnswerDelta(text) == [Payload("answer") EXCEPT !.delta_content = text]
ToolFragment(index, text) ==
  [Payload("tool_call") EXCEPT !.edit_content = text, !.edit_index = <<index>>]
DonePayload == [Payload("other") EXCEPT !.done = TRUE]

ContentPayloads ==
  { AnswerDelta("Hi"),
    AnswerDelta("Ok"),
    [AnswerDelta("Yo") EXCEPT !.usage = Usage(1)],
    [Payload("answer") EXCEPT !.edit_content = "<details>x</details>Hey"],
    [AnswerDelta("Fin") EXCEPT !.finish_reason = "stop"],
    [Payload("answer") EXCEPT !.finish_reason = "stop"],
    [AnswerDelta("Mid") EXCEPT !.finish_reason = "tool_calls"],
    [Payload("thinking") EXCEPT !.delta_content = "Hm"],
    [Payload("other") EXCEPT !.usage = Usage(2)],
    [Payload("other") EXCEPT !.delta_content = "Ot"],
    [Payload("unknown") EXCEPT !.delta_content = "Un"] }

ToolPayloads ==
  { ToolFragment(0, BlockHead(40)),
    ToolFragment(1, BlockTail(40)),
    ToolFragment(0, "junk"),
    [Payload("tool_call") EXCEPT !.edit_content = ToolBlock],
    Payload("tool_call") }

DonePayloads == { DonePayload, Payload("done") }

ErrorPayloads ==
  { [AnswerDelta("Hi") EXCEPT !.error = UpstreamError("top")],
    [AnswerDelta("Hi") EXCEPT !.data_error = UpstreamError("data")],
    [DonePayload EXCEPT !.inner_error = UpstreamError("inner")],
    [ToolFragment(0, ToolBlock) EXCEPT !.error = UpstreamError("top"),
                                       !.data_error = UpstreamError("data"),
                                       !.inner_error = UpstreamError("inner")] }

MalformedValues ==
  { TextValue("[DONE]"),
    TextValue("{\"data\":"),
    TextValue("1"),
    [AnswerDelta("Hi") EXCEPT !.absent = {"type"}],
    [DonePayload EXCEPT !.absent = {"type", "phase"}],
    [AnswerDelta("Hi") EXCEPT !.absent = {"data"}] }

WireValues == ContentPayloads \cup ToolPayloads \cup DonePayloads
              \cup ErrorPayloads \cup MalformedValues

(***************************************************************************)
(* State.                                                                  *)
(* One run of one component at a time: the stream translator (Spec,        *)
(* SpecFragments), the aggregate translator (SpecAgg) or the lexer         *)
(* (SpecLex). The variables of the components that do not run keep their   *)
(* initial values.                                                         *)
(***************************************************************************)
VARIABLES
  pc,                     \* "start", "reading" (inside the read loop), "returned", "failed"
  hasTools,               \* this.hasTools of the translator that runs
  handled,                \* the `data` values handed to the loop so far
  upstreamCalls,          \* how many times _callUpstream ran
  feed,                   \* the `data` values the upstream still has to deliver
  \* StreamResponseHandler
  bufferedContent, toolUsage, toolCallFragments, toolCallFinishReceived, streamEnded,
  sentInitialAnswer,      \* the local of handle
  out,                    \* the chunks yielded so far
  \* NonStreamResponseHandler
  nsToolOrder, nsToolNames, nsToolArgs, nsUsage, nsToolCallFragments,
  nsToolCallFinishReceived,
  fullContent,            \* the local of handle
  response,               \* the document handle resolves to, None before
  \* SSEParser.iterEvents
  stream,                 \* the whole upstream byte stream
  unread,                 \* the part of it no chunk has carried yet
  buffer,                 \* the local of iterEvents
  records,                \* the records yielded so far
  reader                  \* the stream reader of iterEvents

runVars == <<pc, hasTools, handled, upstreamCalls, feed>>

streamVars == <<bufferedContent, toolUsage, toolCallFragments, toolCallFinishReceived,
                streamEnded, sentInitialAnswer, out>>

aggVars == <<nsToolOrder, nsToolNames, nsToolArgs, nsUsage, nsToolCallFragments,
             nsToolCallFinishReceived, fullContent, response>>

lexVars == <<stream, unread, buffer, records>>

vars == <<runVars, streamVars, aggVars, lexVars, reader>>

\* the state a StreamResponseHandler is constructed with
StreamFields ==
  /\ bufferedContent = ""
  /\ toolUsage = Null
  /\ toolCallFragments = EmptyMap
  /\ toolCallFinishReceived = FALSE
  /\ streamEnded = FALSE
  /\ sentInitialAnswer = FALSE
  /\ out = <<>>

\* the state a NonStreamResponseHandler is constructed with
AggFields ==
  /\ nsToolOrder = <<>>
  /\ nsToolNames = EmptyMap
  /\ nsToolArgs = EmptyMap
  /\ nsUsage = Null
  /\ nsToolCallFragments = EmptyMap
  /\ nsToolCallFinishReceived = FALSE
  /\ fullContent = <<>>
  /\ response = None

\* the locals of iterEvents before the first read, for the byte stream s
LexFields(s) ==
  /\ stream = s
  /\ unread = s
  /\ buffer = ""
  /\ records = <<>>
  /\ reader = NoReader

(***************************************************************************)
(* The stream translator run: StreamResponseHandler.handle                 *)
(***************************************************************************)
RunState ==
  [hasTools |-> hasTools, bufferedContent |-> bufferedContent, toolUsage |-> toolUsage,
   toolCallFragments |-> toolCallFragments,
   toolCallFinishReceived |-> toolCallFinishReceived, streamEnded |-> streamEnded]

SetRunState(st) ==
  /\ hasTools' = st.hasTools
  /\ bufferedContent' = st.bufferedContent
  /\ toolUsage' = st.toolUsage
  /\ toolCallFragments' = st.toolCallFragments
  /\ toolCallFinishReceived' = st.toolCallFinishReceived
  /\ streamEnded' = st.streamEnded

StreamInit ==
  /\ pc = "start"
  /\ hasTools \in BOOLEAN
  /\ handled = <<>>
  /\ upstreamCalls = 0
  /\ feed = <<>>
  /\ StreamFields
  /\ AggFields
  /\ LexFields("")

\* _callUpstream throws: one error event, return
CallUpstreamFails ==
  /\ pc = "start"
  /\ pc' = "returned"
  /\ upstreamCalls' = upstreamCalls + 1
  /\ out' = <<ErrorEvent("Failed to call upstream")>>
  /\ UNCHANGED <<hasTools, handled, feed, bufferedContent, toolUsage, toolCallFragments,
                 toolCallFinishReceived, streamEnded, sentInitialAnswer, aggVars, lexVars,
                 reader>>

\* a status check that yields the error event and goes on into the loop
CallUpstreamNotOkGoesOn ==
  /\ pc = "start"
  /\ pc' = "reading"
  /\ upstreamCalls' = upstreamCalls + 1
  /\ out' = <<ErrorEvent("Upstream error")>>
  /\ UNCHANGED <<hasTools, handled, feed, bufferedContent, toolUsage, toolCallFragments,
                 toolCallFinishReceived, streamEnded, sentInitialAnswer, aggVars, lexVars,
                 reader>>

\* the response is not ok: one error event, return
CallUpstreamNotOk ==
  /\ pc = "start"
  /\ pc' = "returned"
  /\ upstreamCalls' = upstreamCalls + 1
  /\ out' = <<ErrorEvent("Upstream error")>>
  /\ UNCHANGED <<hasTools, handled, feed, bufferedContent, toolUsage, toolCallFragments,
                 toolCallFinishReceived, streamEnded, sentInitialAnswer, aggVars, lexVars,
                 reader>>

\* the response is ok: the role chunk, then the loop
CallUpstreamOk ==
  /\ pc = "start"
  /\ pc' = "reading"
  /\ upstreamCalls' = upstreamCalls + 1
  /\ out' = <<RoleChunk>>
  /\ UNCHANGED <<hasTools, handled, feed, bufferedContent, toolUsage, toolCallFragments,
                 toolCallFinishReceived, streamEnded, sentInitialAnswer, aggVars, lexVars,
                 reader>>

\* the finally block of handle
Finally(st) == [st EXCEPT !.streamEnded = TRUE]

\* the run state and output after the loop body left with r: the catch block
\* when it threw, the finally block when the loop is left
AfterBody(r, before) ==
  IF r.exit = "continue" THEN [st |-> r.st, out |-> before \o r.out]
  ELSE IF r.exit = "break" THEN [st |-> Finally(r.st), out |-> before \o r.out]
  ELSE [st |-> Finally(CatchStreamError(r.st, before \o r.out).st),
        out |-> CatchStreamError(r.st, before \o r.out).out]

\* one `data` value goes through the loop body (and, when the body leaves the
\* loop, through the catch and finally blocks)
HandleValue(w, ext, now) ==
  /\ pc = "reading"
  /\ handled' = Append(handled, w)
  /\ \E r \in {LoopBody(RunState, w, sentInitialAnswer, ext, now)} :
       /\ pc' = IF r.exit = "continue" THEN "reading" ELSE "returned"
       /\ reader' = IF r.exit = "continue" THEN Pulled(reader)
                    ELSE IteratorReturn(Pulled(reader))
       /\ \E after \in {AfterBody(r, out)} :
            /\ SetRunState(after.st)
            /\ out' = after.out
  /\ UNCHANGED <<sentInitialAnswer, upstreamCalls, aggVars, lexVars>>

\* the upstream delivers any `data` value
HandleEvent ==
  /\ Len(handled) < MaxEvents
  /\ \E w \in WireValues, ext \in ExtOutcomes, now \in Clock : HandleValue(w, ext, now)
  /\ UNCHANGED feed

\* reader.read() reports done: the loop ends, the finally block runs
EndOfStream ==
  /\ pc = "reading"
  /\ pc' = "returned"
  /\ SetRunState(Finally(RunState))
  /\ reader' = releaseLock(Pulled(reader))
  /\ UNCHANGED <<sentInitialAnswer, out, handled, upstreamCalls, feed, aggVars, lexVars>>

\* reader.read() rejects: the catch block, then the finally block
ReadFault ==
  /\ pc = "reading"
  /\ pc' = "returned"
  /\ SetRunState(Finally(CatchStreamError(RunState, out).st))
  /\ out' = CatchStreamError(RunState, out).out
  /\ reader' = releaseLock(Pulled(reader))
  /\ UNCHANGED <<sentInitialAnswer, handled, upstreamCalls, feed, aggVars, lexVars>>

\* response.body is null: iterEvents throws at the first pull, before getReader;
\* the catch block, then the finally block
BodyMissing ==
  /\ pc = "reading"
  /\ reader.acquired = 0
  /\ pc' = "returned"
  /\ SetRunState(Finally(CatchStreamError(RunState, out).st))
  /\ out' = CatchStreamError(RunState, out).out
  /\ UNCHANGED <<sentInitialAnswer, handled, upstreamCalls, feed, aggVars, lexVars, reader>>

\* the consumer takes the chunks one more `data` value yields and returns the
\* generator parked at the last of them: control leaves the loop through the
\* finally block, without the catch block
ConsumerReturns ==
  /\ pc = "reading"
  /\ Len(handled) < MaxEvents
  /\ \E w \in WireValues, ext \in ExtOutcomes, now \in Clock :
       \E r \in {LoopBody(RunState, w, sentInitialAnswer, ext, now)} :
         /\ r.exit = "continue"
         /\ r.out # <<>>
         /\ handled' = Append(handled, w)
         /\ pc' = "returned"
         /\ SetRunState(Finally(r.st))
         /\ out' = out \o r.out
         /\ reader' = IteratorReturn(Pulled(reader))
  /\ UNCHANGED <<sentInitialAnswer, upstreamCalls, feed, aggVars, lexVars>>

StreamNext ==
  \/ CallUpstreamFails
  \/ CallUpstreamNotOk
  \/ CallUpstreamOk
  \/ HandleEvent
  \/ EndOfStream
  \/ ReadFault
  \/ BodyMissing
  \/ ConsumerReturns

Init == StreamInit

Next == StreamNext

Spec == Init /\ [][Next]_vars

(***************************************************************************)
(* The stream translator fed a fixed upstream: the `data` values arrive in *)
(* the order of `feed`, tool mode is on from the start.                    *)
(***************************************************************************)
\* how many fragments one set of tool_call payloads holds at most
MaxFragments == 3

\* a second well-formed block, of another invocation
OtherBlock ==
  "<glm_block view=\"\">{\"data\":{\"metadata\":{\"id\":\"call_2\",\"name\":\"g\",\"arguments\":\"{}\"}}}</glm_block>"

\* the two halves of Scenario B's block and the second block
FragmentTexts == { BlockHead(40), BlockTail(40), OtherBlock }

FragmentPool == { ToolFragment(i, t) : i \in 0..(MaxFragments - 1), t \in FragmentTexts }

\* every sequence of n different elements of S
Arrangements(S, n) ==
  { f \in [1..n -> S] : \A i, j \in 1..n : i # j => f[i] # f[j] }

\* the finish signal and the done payload that follow the fragments
FinishPayload == [Payload("answer") EXCEPT !.finish_reason = "stop"]

\* any fragments of the pool in any arrival order, then the finish signal and done
PoolFeeds ==
  UNION { { f \o <<FinishPayload, DonePayload>> : f \in Arrangements(FragmentPool, n) }
          : n \in 1..MaxFragments }

\* Scenario B: the block cut in two after its k-th character, then done
SplitFeed(k) == <<ToolFragment(0, BlockHead(k)), ToolFragment(1, BlockTail(k)), DonePayload>>

SplitFeeds == { SplitFeed(k) : k \in 1..(Len(ToolBlock) - 1) }

\* JSON.stringify of a text, as the upstream writes a string member
JsonString(text) ==
  "\"" \o Join(Split(Join(Split(text, "\\"), "\\\\"), "\""), "\\\"") \o "\""

\* texts that are valid JSON: documents, and documents escaped once and twice
JsonTexts ==
  { "{\"x\":1}", "[1]", "12", " {\"x\":1} ", "{}", "\"hello\"",
    JsonString("{\"x\":1}"), JsonString("12"), JsonString(JsonString("12")) }

\* texts that are not valid JSON
NonJsonTexts == { "", "hello", "{\"x\":1", "\"", "\"hello", "{\"x\":1}\"" }

\* the texts metadata.arguments takes
ArgTexts == JsonTexts \cup NonJsonTexts

\* the values metadata.arguments takes, as the upstream writes them: a string
\* member for every text, and members that are not strings
TextMembers == { JsonString(text) : text \in ArgTexts }

OtherMembers == { "{\"x\":1}", "7", "null", "true", "[\"a\"]" }

\* a block of invocation call_1 / f whose arguments member is written `member`,
\* its metadata at the top level or under `data`
ArgsBlock(member, underData) ==
  GlmOpen \o (IF underData THEN "{\"data\":" ELSE "")
  \o "{\"metadata\":{\"id\":\"call_1\",\"name\":\"f\",\"arguments\":" \o member \o "}}"
  \o (IF underData THEN "}" ELSE "") \o GlmClose

\* one fragment holding the block, then the finish signal and done
ArgsFeed(member, underData) ==
  <<ToolFragment(0, ArgsBlock(member, underData)), FinishPayload, DonePayload>>

ArgsFeeds ==
  { ArgsFeed(member, underData) : member \in TextMembers \cup OtherMembers,
                                  underData \in BOOLEAN }

\* fragment texts holding whole blocks: one block, two blocks of different
\* invocations, the same block twice, and a continuation that ends with a block
MultiTexts ==
  { ToolBlock, OtherBlock, ToolBlock \o OtherBlock, ToolBlock \o ToolBlock,
    "x" \o OtherBlock }

\* answer text (or none) that tool mode buffers, two fragments of whole blocks
\* with edit_index 0 and 1, then the finish signal and done
MultiFeed(lead, first, second) ==
  lead \o <<ToolFragment(0, first), ToolFragment(1, second), FinishPayload, DonePayload>>

MultiFeeds ==
  { MultiFeed(lead, first, second) :
      lead \in {<<>>, <<AnswerDelta("Hi")>>}, first \in MultiTexts, second \in MultiTexts }

\* a block whose JSON is cut short
BrokenBlock ==
  "<glm_block view=\"\">{\"metadata\":{\"id\":\"call_1\",\"arguments\":\"{}\"</glm_block>"

\* a block cut in two after its k-th character (edit_index 0 and 1), then the
\* finish signal and done
FinishedSplitFeed(block, k) ==
  <<ToolFragment(0, SubSeq(block, 1, k)), ToolFragment(1, SubSeq(block, k + 1, Len(block))),
    FinishPayload, DonePayload>>

\* cuts inside the opening tag, inside the JSON and inside the closing tag
FinishedSplitFeeds ==
  { FinishedSplitFeed(ToolBlock, k) : k \in {1, 40, Len(ToolBlock) - 1} }
  \cup { FinishedSplitFeed(BrokenBlock, 1) }

\* Math.floor(Math.random() * 1000)
RandomNumbers == {7}

FragmentsInit ==
  /\ pc = "start"
  /\ hasTools = TRUE
  /\ handled = <<>>
  /\ upstreamCalls = 0
  /\ feed \in PoolFeeds \cup SplitFeeds \cup ArgsFeeds \cup MultiFeeds \cup FinishedSplitFeeds
  /\ StreamFields
  /\ AggFields
  /\ LexFields("")

\* the upstream delivers the next value of the feed
FeedEvent ==
  /\ feed # <<>>
  /\ \E ext \in ExtOutcomes, now \in Clock : HandleValue(Head(feed), ext, now)
  /\ feed' = Tail(feed)

FragmentsNext ==
  \/ CallUpstreamOk
  \/ FeedEvent

SpecFragments == FragmentsInit /\ [][FragmentsNext]_vars

(***************************************************************************)
(* The aggregate translator run: NonStreamResponseHandler.handle           *)
(***************************************************************************)
NsState ==
  [hasTools |-> hasTools, nsToolOrder |-> nsToolOrder, nsToolNames |-> nsToolNames,
   nsToolArgs |-> nsToolArgs, nsUsage |-> nsUsage,
   nsToolCallFragments |-> nsToolCallFragments,
   nsToolCallFinishReceived |-> nsToolCallFinishReceived, fullContent |-> fullContent]

SetNsState(ns) ==
  /\ hasTools' = ns.hasTools
  /\ nsToolOrder' = ns.nsToolOrder
  /\ nsToolNames' = ns.nsToolNames
  /\ nsToolArgs' = ns.nsToolArgs
  /\ nsUsage' = ns.nsUsage
  /\ nsToolCallFragments' = ns.nsToolCallFragments
  /\ nsToolCallFinishReceived' = ns.nsToolCallFinishReceived
  /\ fullContent' = ns.fullContent

AggInit ==
  /\ pc = "start"
  /\ hasTools \in BOOLEAN
  /\ handled = <<>>
  /\ upstreamCalls = 0
  /\ feed = <<>>
  /\ StreamFields
  /\ AggFields
  /\ LexFields("")

\* _callUpstream throws: the 502 document
NsCallUpstreamFails ==
  /\ pc = "start"
  /\ pc' = "returned"
  /\ upstreamCalls' = upstreamCalls + 1
  /\ response' = Some(ErrorDocument("Failed to call upstream"))
  /\ UNCHANGED <<hasTools, handled, feed, streamVars, nsToolOrder, nsToolNames, nsToolArgs,
                 nsUsage, nsToolCallFragments, nsToolCallFinishReceived, fullContent,
                 lexVars, reader>>

\* the response is not ok: the 502 document
NsCallUpstreamNotOk ==
  /\ pc = "start"
  /\ pc' = "returned"
  /\ upstreamCalls' = upstreamCalls + 1
  /\ response' = Some(ErrorDocument("Upstream error"))
  /\ UNCHANGED <<hasTools, handled, feed, streamVars, nsToolOrder, nsToolNames, nsToolArgs,
                 nsUsage, nsToolCallFragments, nsToolCallFinishReceived, fullContent,
                 lexVars, reader>>

\* the response is ok: the loop
NsCallUpstreamOk ==
  /\ pc = "start"
  /\ pc' = "reading"
  /\ upstreamCalls' = upstreamCalls + 1
  /\ UNCHANGED <<hasTools, handled, feed, streamVars, aggVars, lexVars, reader>>

\* the state the document is built from once the loop is left
NsLeft(ns, now) == [ns |-> NsFinal(ns, now), doc |-> Some(Document(NsFinal(ns, now)))]

\* the run after the loop body left with r: on, out of the loop, or rejected
NsAfterBody(r, now) ==
  IF r.exit = "break" THEN NsLeft(r.ns, now) ELSE [ns |-> r.ns, doc |-> None]

\* one `data` value goes through the loop body; when the body leaves the loop
\* the document is built, when it throws handle rejects
NsHandleValue(w, ext, now) ==
  /\ pc = "reading"
  /\ handled' = Append(handled, w)
  /\ \E r \in {NsLoopBody(NsState, w, ext, now)} :
       /\ pc' = CASE r.exit = "continue" -> "reading"
                  [] r.exit = "break" -> "returned"
                  [] OTHER -> "failed"
       /\ reader' = IF r.exit = "continue" THEN Pulled(reader)
                    ELSE IteratorReturn(Pulled(reader))
       /\ \E after \in {NsAfterBody(r, now)} :
            /\ SetNsState(after.ns)
            /\ response' = after.doc
  /\ UNCHANGED <<upstreamCalls, feed, streamVars, lexVars>>

\* the upstream delivers any `data` value
NsHandleEvent ==
  /\ Len(handled) < MaxEvents
  /\ \E w \in WireValues, ext \in ExtOutcomes, now \in Clock : NsHandleValue(w, ext, now)

\* reader.read() reports done: the loop ends, the document is built
NsEndOfStream ==
  /\ pc = "reading"
  /\ pc' = "returned"
  /\ \E now \in Clock :
       \E after \in {NsLeft(NsState, now)} :
         /\ SetNsState(after.ns)
         /\ response' = after.doc
  /\ reader' = releaseLock(Pulled(reader))
  /\ UNCHANGED <<handled, upstreamCalls, feed, streamVars, lexVars>>

\* reader.read() rejects: handle rejects, no document
NsReadFault ==
  /\ pc = "reading"
  /\ pc' = "failed"
  /\ reader' = releaseLock(Pulled(reader))
  /\ UNCHANGED <<hasTools, handled, upstreamCalls, feed, streamVars, aggVars, lexVars>>

\* response.body is null: iterEvents throws at the first pull, handle rejects
NsBodyMissing ==
  /\ pc = "reading"
  /\ reader.acquired = 0
  /\ pc' = "failed"
  /\ UNCHANGED <<hasTools, handled, upstreamCalls, feed, streamVars, aggVars, lexVars,
                 reader>>

AggNext ==
  \/ NsCallUpstreamFails
  \/ NsCallUpstreamNotOk
  \/ NsCallUpstreamOk
  \/ NsHandleEvent
  \/ NsEndOfStream
  \/ NsReadFault
  \/ NsBodyMissing

SpecAgg == AggInit /\ [][AggNext]_vars

(***************************************************************************)
(* A run of either handler from the same construction. The handler that    *)
(* runs is told by its output: the stream handler yields its first chunk   *)
(* in the step that calls the upstream, the aggregate handler yields none. *)
(***************************************************************************)
StreamStep == (pc = "start" \/ out # <<>>) /\ StreamNext

AggStep == (pc = "start" \/ out = <<>>) /\ AggNext

HandlersNext ==
  \/ StreamStep
  \/ AggStep

SpecHandlers == Init /\ [][HandlersNext]_vars

(***************************************************************************)
(* The lexer run: SSEParser.iterEvents on a byte stream that arrives in    *)
(* chunks cut anywhere                                                     *)
(***************************************************************************)
LexStreams ==
  { "data: {\"a\":1}\n\ndata: [DONE]\ndata: {\"b\":\n",
    "event: m\r\nid: 7\n: ping\nretry: 50\ndata:x",
    "data:  \nnocolon\n data : 1 \nretry: soon\nda",
    "\n\ndata: {\"p\":[\"q: r\"]}\n\n" }

LexInit ==
  /\ pc = "reading"
  /\ hasTools = FALSE
  /\ handled = <<>>
  /\ upstreamCalls = 0
  /\ feed = <<>>
  /\ StreamFields
  /\ AggFields
  /\ \E s \in LexStreams : LexFields(s)

\* reader.read() resolves with the next n characters of the stream
ReadChunk ==
  /\ pc = "reading"
  /\ \E n \in 0..Len(unread) :
       \E got \in {ProcessChunk(buffer, SubSeq(unread, 1, n))} :
         /\ unread' = SubSeq(unread, n + 1, Len(unread))
         /\ buffer' = got.buffer
         /\ records' = records \o got.records
  /\ reader' = Pulled(reader)
  /\ UNCHANGED <<runVars, streamVars, aggVars, stream>>

\* reader.read() reports done once the stream is delivered: the generator returns
ReadDone ==
  /\ pc = "reading"
  /\ unread = ""
  /\ pc' = "returned"
  /\ reader' = releaseLock(Pulled(reader))
  /\ UNCHANGED <<hasTools, handled, upstreamCalls, feed, streamVars, aggVars, lexVars>>

LexNext ==
  \/ ReadChunk
  \/ ReadDone

SpecLex == LexInit /\ [][LexNext]_vars

(***************************************************************************)
(* Properties of the stream translator run (Spec)                          *)
(***************************************************************************)
Last(seq) == seq[Len(seq)]

Front(seq) == SubSeq(seq, 1, Len(seq) - 1)

FinishChunks == { i \in 1..Len(out) : out[i].kind = "finish" }

Sentinels == { i \in 1..Len(out) : out[i] = DoneSentinel }

\* the close written by the error branch and by the catch block
StopClose == <<FinishChunk("stop", Null), DoneSentinel>>

\* the step hands one more `data` value to the loop
Handles == pc = "reading" /\ handled' # handled

\* C1: whatever payloads arrive and wherever a fault is raised, the output of
\* one run holds at most one finish chunk and at most one [DONE] sentinel.
C1_AtMostOneClose == Cardinality(FinishChunks) <= 1 /\ Cardinality(Sentinels) <= 1

\* a run closed by the catch block: the collaborator threw on a thinking payload
\* after content was sent
C1_ClosedAfterFault ==
  /\ pc = "returned"
  /\ Len(handled) >= 2
  /\ Last(handled).phase = "thinking"
  /\ Len(out) >= 4
  /\ SubSeq(out, Len(out) - 1, Len(out)) = StopClose
  /\ Cardinality(FinishChunks) = 1
  /\ Cardinality(Sentinels) = 1

\* C2: every run whose upstream call succeeded has, once handle returned, a
\* finish chunk followed by [DONE] as its last two emissions.
C2_ReturnsClosed ==
  (pc = "returned" /\ Len(out) > 0 /\ out[1] = RoleChunk)
    => /\ Len(out) >= 3
       /\ out[Len(out) - 1].kind = "finish"
       /\ out[Len(out)] = DoneSentinel

\* the `data` value carries an error at one of the three levels
CarriesError(w) ==
  /\ w.kind = "object"
  /\ \/ w.error # Null
     \/ "data" \notin w.absent /\ w.data_error # Null
     \/ "data" \notin w.absent /\ w.inner_error # Null

\* a payload that sets the three levels, and one that sets the two lower ones
AllLevels ==
  [AnswerDelta("Hi") EXCEPT !.error = UpstreamError("top"),
                            !.data_error = UpstreamError("data"),
                            !.inner_error = UpstreamError("inner")]

LowerLevels ==
  [AnswerDelta("Hi") EXCEPT !.data_error = UpstreamError("data"),
                            !.inner_error = UpstreamError("inner")]

\* C5: a payload that carries an error (top level first, then data level, then
\* inner) makes the run emit the stop finish chunk and [DONE] and nothing else,
\* in any run state, and return; after it no payload is handled and nothing is
\* emitted.
C5_ErrorCloses ==
  /\ _getError(Decode(AllLevels)) = UpstreamError("top")
  /\ _getError(Decode(LowerLevels)) = UpstreamError("data")
  /\ [][/\ (Handles /\ CarriesError(Last(handled')))
             => (out' = out \o StopClose /\ pc' = "returned")
        /\ (handled # <<>> /\ CarriesError(Last(handled)))
             => (handled' = handled /\ out' = out)]_vars

\* an error payload closed a run in tool mode that held buffered text and fragments
C5_ErrorWhilePending ==
  /\ pc = "returned"
  /\ Len(handled) = 3
  /\ CarriesError(Last(handled))
  /\ hasTools
  /\ bufferedContent # ""
  /\ Len(toolCallFragments) > 0
  /\ out = <<RoleChunk>> \o StopClose

\* an answer-phase payload that carries a delta_content text and nothing else
PlainDelta(w) ==
  /\ SchemaOk(w)
  /\ w.phase = "answer"
  /\ w.delta_content # ""
  /\ w.edit_content = ""
  /\ w.usage = Null
  /\ w.finish_reason = ""
  /\ ~CarriesError(w)

\* a done payload: done set, or the done phase
PlainDone(w) == SchemaOk(w) /\ w \in DonePayloads

\* C7: with tool mode off, answer deltas t1..tn (each a text) followed by a done
\* payload give exactly: the role chunk, one content chunk per ti in arrival
\* order, the stop finish chunk, [DONE].
C7_PlainAnswerRun ==
  ( /\ pc = "returned"
    /\ ~hasTools
    /\ Len(handled) >= 1
    /\ PlainDone(Last(handled))
    /\ \A i \in 1..(Len(handled) - 1) : PlainDelta(handled[i]) )
    => out = <<RoleChunk>>
             \o [i \in 1..(Len(handled) - 1) |-> ContentChunk(handled[i].delta_content)]
             \o StopClose

\* two deltas, then done
C7_TwoDeltasThenDone ==
  /\ pc = "returned"
  /\ ~hasTools
  /\ handled = <<AnswerDelta("Hi"), AnswerDelta("Ok"), DonePayload>>
  /\ Len(out) = 5

\* the run is about to reassemble: finish signal held, tool mode on, fragments held
ReassemblyPending == toolCallFinishReceived /\ hasTools /\ Len(toolCallFragments) > 0

\* the value is handled as the default payload: no effect, and the loop goes on
Recovered ==
  /\ Decode(JsonDataEvent(DataEvent(Last(handled'))).data) = DefaultData
  /\ pc' = "reading"
  /\ out' = out
  /\ RunState' = RunState

C3_ChunkingIndependent ==
  /\ records \o ProcessChunk(buffer, unread).records = Consumed(Split(stream, "\n")).records
  /\ ProcessChunk(buffer, unread).buffer = Consumed(Split(stream, "\n")).buffer
  /\ pc = "returned" => records = Consumed(Split(stream, "\n")).records

\* a chunk ended inside the JSON value of a `data` line: the line is kept back
C3_LineCutByChunk ==
  /\ pc = "reading"
  /\ buffer = "data: {\"a\""
  /\ records = <<>>
  /\ unread # ""

(***************************************************************************)
(* Properties of the aggregate translator run (SpecAgg)                    *)
(***************************************************************************)
\* handle resolved to the document of a successful upstream response
Returned200 == pc = "returned" /\ response # None /\ response[1].status = 200

\* C8: in every document of a successful response tool_calls is non-null exactly
\* when finish_reason is "tool_calls", content is null whenever tool_calls is
\* non-null, and finish_reason is "stop" in every other document.
C8_ToolCallsExclusive ==
  Returned200 =>
    /\ response[1].tool_calls # None <=> response[1].finish_reason = "tool_calls"
    /\ response[1].tool_calls # None => response[1].content = None
    /\ response[1].tool_calls = None => response[1].finish_reason = "stop"

\* a document with a tool-call list although answer text was collected
C8_ToolCallsOverText ==
  /\ Returned200
  /\ response[1].tool_calls # None
  /\ Len(response[1].tool_calls[1]) = 1
  /\ fullContent # <<>>
  /\ response[1].content = None

\* the texts of the answer-phase payloads the loop takes content from, in order
RECURSIVE AnswerText(_)
AnswerTextOf(d) ==
  IF d.phase = "answer" /\ d.finish_reason = "" THEN d.delta_content ELSE ""

AnswerText(values) ==
  IF Len(values) = 0 THEN ""
  ELSE AnswerTextOf(Decode(JsonDataEvent(DataEvent(Head(values))).data))
       \o AnswerText(Tail(values))

\* C9: when no invocation is resolved the document's content is the
\* concatenation, in arrival order, of the answer-phase text only, and
\* finish_reason is "stop".
C9_AnswerTextOnly ==
  (Returned200 /\ response[1].tool_calls = None)
    => /\ response[1].content = Some(AnswerText(handled))
       /\ response[1].finish_reason = "stop"

(***************************************************************************)
(* Properties of the runs fed fragments (SpecFragments)                    *)
(***************************************************************************)
\* the run state of a stream translator constructed with tool mode on
ToolModeRunState ==
  [hasTools |-> TRUE, bufferedContent |-> "", toolUsage |-> Null,
   toolCallFragments |-> EmptyMap, toolCallFinishReceived |-> FALSE, streamEnded |-> FALSE]

\* the run state of an aggregate translator constructed with tool mode on
ToolModeNsState ==
  [hasTools |-> TRUE, nsToolOrder |-> <<>>, nsToolNames |-> EmptyMap,
   nsToolArgs |-> EmptyMap, nsUsage |-> Null, nsToolCallFragments |-> EmptyMap,
   nsToolCallFinishReceived |-> FALSE, fullContent |-> <<>>]

\* the chunks of a whole stream run over the values, from state st
RECURSIVE Run(_, _, _, _)
Ran(emitted, rest, now, r) ==
  IF r.exit = "continue" THEN Run(r.st, emitted \o r.out, rest, now)
  ELSE AfterBody(r, emitted).out

Run(st, emitted, values, now) ==
  IF Len(values) = 0 THEN emitted
  ELSE Ran(emitted, Tail(values), now, LoopBody(st, Head(values), FALSE, "plain", now))

\* the document of a whole aggregate run over the values, from state ns
RECURSIVE NsRun(_, _, _)
NsRan(rest, now, r) ==
  IF r.exit = "continue" THEN NsRun(r.ns, rest, now)
  ELSE IF r.exit = "break" THEN NsLeft(r.ns, now).doc
  ELSE None

NsRun(ns, values, now) ==
  IF Len(values) = 0 THEN NsLeft(ns, now).doc
  ELSE NsRan(Tail(values), now, NsLoopBody(ns, Head(values), "plain", now))

\* the tool_call payloads among the values
Fragments(values) == SelectSeq(values, LAMBDA w : w.phase = "tool_call")

\* every arrival order of the values
Orders(values) ==
  { [i \in 1..Len(values) |-> values[f[i]]] : f \in Arrangements(1..Len(values), Len(values)) }

DistinctIndices(values) ==
  \A i, j \in 1..Len(values) : i # j => EditIndex(values[i]) # EditIndex(values[j])

\* a run over fragments of the pool returned
PoolRun == pc = "returned" /\ feed = <<>> /\ handled \in PoolFeeds

\* every other arrival order of the fragments handled gives the chunks of this
\* run and the document of the aggregate run over them
SameInEveryOrder ==
  \A now \in Clock :
    \A o \in Orders(Fragments(handled)) :
      /\ Run(ToolModeRunState, <<RoleChunk>>, o \o <<FinishPayload, DonePayload>>, now) = out
      /\ NsRun(ToolModeNsState, o \o <<FinishPayload, DonePayload>>, now)
           = NsRun(ToolModeNsState, handled, now)

\* C4 (as amended): fragments with pairwise different edit_index resolve to the
\* same invocations (ids, names, arguments) in every arrival order, in the
\* stream and in the aggregate translator.
C4_OrderIndependent == (PoolRun /\ DistinctIndices(Fragments(handled))) => SameInEveryOrder

\* three fragments that arrived out of index order resolved to an invocation
C4_OutOfOrderResolved ==
  /\ PoolRun
  /\ Len(Fragments(handled)) = 3
  /\ DistinctIndices(Fragments(handled))
  /\ EditIndex(handled[1]) > EditIndex(handled[2])
  /\ \E i \in 1..Len(out) : out[i].kind = "tool_calls" /\ out[i].id = "call_1"

\* C4 (as stated): any set of (edit_index, text) fragments resolves to the same
\* invocations in every arrival order.
C4_AnyFragmentsOrderIndependent == PoolRun => SameInEveryOrder

\* the invocation of Scenario B
ScenarioCall == [id |-> "call_1", name |-> "f", arguments |-> "{\"x\":1}"]

\* C6: the block of Scenario B cut in two at any boundary (edit_index 0 and 1),
\* then a done payload, gives: role chunk, started chunk (call_1, f, no
\* arguments), arguments chunk {"x":1}, finish chunk "tool_calls", [DONE].
C6_SplitBlockResolved ==
  (pc = "returned" /\ handled \in SplitFeeds)
    => out = <<RoleChunk, ToolStartedChunk(0, ScenarioCall), ToolArgsChunk(0, ScenarioCall),
               FinishChunk("tool_calls", Null), DoneSentinel>>

(***************************************************************************)
(* Properties of a run of either handler (SpecHandlers)                    *)
(***************************************************************************)
ErrorEvents == { i \in 1..Len(out) : out[i].kind = "error" }

\* handle resolved to the document of a failed upstream call
Returned502 == response # None /\ response[1].status = 502

\* no payload of the upstream body went through a translator
Untranslated ==
  /\ handled = <<>>
  /\ bufferedContent = "" /\ toolUsage = Null /\ toolCallFragments = EmptyMap
  /\ ~toolCallFinishReceived /\ ~streamEnded
  /\ nsToolOrder = <<>> /\ nsUsage = Null /\ nsToolCallFragments = EmptyMap
  /\ ~nsToolCallFinishReceived /\ fullContent = <<>>
  /\ reader = NoReader

\* C11: a run makes at most one upstream call; a run that returns without
\* entering the read loop (the call threw, or the status is not a success) has
\* produced one error output: in stream mode the error event is the whole
\* output, with no role chunk before it and nothing after it, in aggregate mode
\* the 502 document is the response; no payload is translated, and nothing
\* happens after the return.
C11_FailureIsMinimal ==
  /\ [](upstreamCalls <= 1)
  /\ [](ErrorEvents # {} =>
          /\ out \in { <<ErrorEvent("Failed to call upstream")>>, <<ErrorEvent("Upstream error")>> }
          /\ response = None
          /\ pc = "returned" /\ upstreamCalls = 1 /\ Untranslated)
  /\ [](Returned502 =>
          /\ response[1] \in { ErrorDocument("Failed to call upstream"),
                                ErrorDocument("Upstream error") }
          /\ out = <<>>
          /\ pc = "returned" /\ upstreamCalls = 1 /\ Untranslated)
  /\ [][/\ (pc = "start" /\ pc' = "returned") => (ErrorEvents' # {} \/ Returned502')
        /\ pc # "returned"]_vars

\* the stream handler returned after a non-success status
C11_UpstreamErrorOnly ==
  /\ pc = "returned"
  /\ upstreamCalls = 1
  /\ out = <<ErrorEvent("Upstream error")>>
  /\ handled = <<>>

\* the run is over: handle returned, or (aggregate) rejected
RunOver == pc \in {"returned", "failed"}

\* C12: the reader is acquired at most once per run and never released more
\* often than acquired; while the loop runs an acquired reader is held; once the
\* run is over on any path (end of stream, break after a close, the consumer
\* returning the generator, a fault while reading or translating) a reader
\* that was acquired has been released exactly once, and every run that handled
\* a payload did acquire it.
C12_ReaderReleasedOnce ==
  /\ reader.acquired <= 1
  /\ reader.released <= reader.acquired
  /\ (pc = "reading" /\ reader.acquired = 1) => (reader.held /\ reader.released = 0)
  /\ (RunOver /\ reader.acquired = 1) => (~reader.held /\ reader.released = 1)
  /\ (RunOver /\ handled # <<>>) => reader.acquired = 1

\* the stream translator broke out of the loop after its close: reader released
C12_ReleasedAfterBreak ==
  /\ pc = "returned"
  /\ Len(handled) = 2
  /\ Last(handled) \in DonePayloads
  /\ Last(out) = DoneSentinel
  /\ reader = [held |-> FALSE, acquired |-> 1, released |-> 1]

(***************************************************************************)
(* The arguments normalization of the reassembly (SpecFragments)           *)
(***************************************************************************)
\* the text starts and ends with a double quote
Quoted(text) == StartsWith(text, "\"") /\ EndsWith(text, "\"")

\* the valid JSON documents the text holds in escaped form
HeldDocuments(text) == { doc \in JsonTexts : text = JsonString(doc) }

\* the only invocation of a run: call_1 / f with these arguments
ArgsCall(arguments) == [id |-> "call_1", name |-> "f", arguments |-> arguments]

\* a run over the block whose arguments member is `member` resolved, in the
\* stream and in the aggregate translator, to the one invocation with
\* `arguments`
ResolvedTo(member, arguments) ==
  \A underData \in BOOLEAN :
    (pc = "returned" /\ handled = ArgsFeed(member, underData)) =>
      /\ out = <<RoleChunk, ToolStartedChunk(0, ArgsCall(arguments)),
                 ToolArgsChunk(0, ArgsCall(arguments)),
                 FinishChunk("tool_calls", Null), DoneSentinel>>
      /\ \A now \in Clock :
           \E doc \in {NsRun(ToolModeNsState, handled, now)} :
             /\ doc # None
             /\ doc[1].tool_calls
                  = Some(<<[id |-> "call_1", type |-> "function", name |-> "f",
                            arguments |-> arguments]>>)

\* the arguments the normalization gives a text
NormalizedText(text) ==
  IF Quoted(text)
  THEN IF HeldDocuments(text) # {} THEN CHOOSE doc \in HeldDocuments(text) : TRUE ELSE "{}"
  ELSE IF text \in JsonTexts THEN text ELSE "{}"

\* C13 (as amended): a metadata.arguments text that is valid JSON and does not
\* both start and end with a double quote is resolved unchanged; a text that
\* starts and ends with a double quote is resolved to the document it holds,
\* unescaped exactly once, when that document is valid JSON, and to "{}" when
\* it is not; every other value (a text that is not JSON, the empty text, a
\* value that is no text) is resolved to "{}".
C13_ArgumentsNormalized ==
  /\ \A text \in ArgTexts : IsJson(text) <=> text \in JsonTexts
  /\ \A text \in ArgTexts : ResolvedTo(JsonString(text), NormalizedText(text))
  /\ \A member \in OtherMembers : ResolvedTo(member, "{}")

\* a quoted text holding the escaped document {"x":1} was resolved to it
C13_EscapedUnescapedOnce ==
  /\ pc = "returned"
  /\ handled = ArgsFeed(JsonString(JsonString("{\"x\":1}")), FALSE)
  /\ Len(out) = 5
  /\ out[3] = ToolArgsChunk(0, ArgsCall("{\"x\":1}"))

\* the arguments the claim gives a text: the held document for a quoted string
\* holding one, the text itself for any other valid JSON text, "{}" otherwise
StatedText(text) ==
  IF HeldDocuments(text) # {} THEN CHOOSE doc \in HeldDocuments(text) : TRUE
  ELSE IF text \in JsonTexts THEN text ELSE "{}"

\* C13 (as stated): every metadata.arguments value that is valid JSON text is
\* resolved unchanged, a quoted string holding an escaped valid JSON document is
\* resolved to the document, every other value to "{}".
C13_ValidTextUnchanged ==
  /\ \A text \in ArgTexts : ResolvedTo(JsonString(text), StatedText(text))
  /\ \A member \in OtherMembers : ResolvedTo(member, "{}")

(***************************************************************************)
(* The two translators over the same payloads (SpecFragments)              *)
(***************************************************************************)
\* the chunks of one kind of tool-call chunk, in emission order
ToolChunks(chunks, part) ==
  SelectSeq(chunks, LAMBDA c : c.kind = "tool_calls" /\ c.part = part)

\* the invocations a stream announced: id and name from the started chunks,
\* arguments from the arguments chunks
StreamInvocations(chunks) ==
  [i \in 1..Len(ToolChunks(chunks, "started")) |->
     [id |-> ToolChunks(chunks, "started")[i].id,
      name |-> ToolChunks(chunks, "started")[i].name,
      arguments |-> ToolChunks(chunks, "arguments")[i].arguments]]

\* the finish reasons a stream announced
StreamFinishReasons(chunks) ==
  { chunks[i].finish_reason : i \in { j \in 1..Len(chunks) : chunks[j].kind = "finish" } }

\* the invocations of a document
DocumentInvocations(doc) ==
  IF doc.tool_calls = None THEN <<>>
  ELSE [i \in 1..Len(doc.tool_calls[1]) |->
          [id |-> doc.tool_calls[1][i].id, name |-> doc.tool_calls[1][i].name,
           arguments |-> doc.tool_calls[1][i].arguments]]

\* the document has the finish reason and the invocations of the chunks
SameOutcome(chunks, doc) ==
  /\ StreamFinishReasons(chunks) = {doc.finish_reason}
  /\ StreamInvocations(chunks) = DocumentInvocations(doc)

\* C14: a stream run that was closed announced the finish reason and the
\* invocations (id, name, arguments, in order) of the document the aggregate
\* translator builds from the same payloads with the same tool mode.
C14_SameOutcome ==
  (pc = "returned" /\ Len(out) > 1 /\ Last(out) = DoneSentinel) =>
    \A now \in Clock :
      \E doc \in {NsRun(ToolModeNsState, handled, now)} :
        doc # None /\ SameOutcome(out, doc[1])

(***************************************************************************)
(* The end-of-run triggers of the stream translator (SpecFragments)        *)
(***************************************************************************)
\* this step handled a payload without error at which an end-of-run trigger
\* ran the reassembly: the finish signal was observed and the payload is not of
\* phase tool_call, or the payload is the done signal; tool mode is on and
\* fragments are pending
ReassemblyTriggered ==
  /\ pc = "reading"
  /\ Len(handled') = Len(handled) + 1
  /\ ~_hasError(Decode(Last(handled')))
  /\ ToolCallsDue(RunState', Decode(Last(handled')))

\* this step closed the run: it emitted a finish chunk and then [DONE]
ClosedInStep ==
  /\ pc' = "returned"
  /\ Len(out') >= Len(out) + 2
  /\ out'[Len(out') - 1].kind = "finish"
  /\ Last(out') = DoneSentinel

\* C15: a step in which an end-of-run trigger runs the reassembly closes the
\* run: a finish chunk and [DONE] are emitted in that step, whatever the
\* fragments hold and however many invocations are resolved.
C15_TriggerCloses == [][ReassemblyTriggered => ClosedInStep]_vars

(***************************************************************************)
(* Errors, the done signal and usage in the aggregate translator (SpecAgg) *)
(***************************************************************************)
\* a payload handled so far carried an error at one of the three levels
ErrorHandled == \E i \in 1..Len(handled) : _hasError(Decode(handled[i]))

\* what the document is built from: text, usage, fragments, invocations
Collected ==
  <<fullContent, nsUsage, nsToolCallFragments, nsToolOrder, nsToolNames, nsToolArgs>>

\* C16: once a payload carrying an error was handled, a payload handled after
\* it adds no text, usage, fragment or invocation to what the document is
\* built from.
C16_NothingAfterError ==
  [][(ErrorHandled /\ Len(handled') = Len(handled) + 1) => UNCHANGED Collected]_vars

\* the aggregate run returned a document at the done signal, in tool mode, with
\* fragments collected
DoneWithFragments ==
  /\ pc = "returned"
  /\ response # None
  /\ handled # <<>>
  /\ Decode(Last(handled)).done \/ Decode(Last(handled)).phase = "done"
  /\ hasTools
  /\ nsToolCallFragments # EmptyMap

\* C17: a document returned at the done signal in tool mode with fragments
\* collected lists the invocations the reassembly resolves from those
\* fragments, whether or not a finish value "stop" was observed.
C17_DoneReassembles ==
  DoneWithFragments =>
    \A now \in Clock :
      response[1].tool_calls
        = Document(_processNonStreamMultipleToolCalls(NsState, now)).tool_calls

(***************************************************************************)
(* Finish values, usage and the initial answer in the stream translator    *)
(* (Spec)                                                                  *)
(***************************************************************************)
\* this step handled an answer-phase payload without error that carries a
\* structured finish value
FinishHandled ==
  /\ pc = "reading"
  /\ Len(handled') = Len(handled) + 1
  /\ ~_hasError(Decode(Last(handled')))
  /\ Decode(Last(handled')).phase = "answer"
  /\ Decode(Last(handled')).finish_reason # ""

\* C18: an answer-phase payload whose finish value is "stop" sets the
\* finish-observed flag, with or without text; the text of a payload with any
\* finish value is not buffered; and unless fragments are pending in tool mode
\* (or the payload is the done signal) the payload emits nothing and the run
\* goes on.
C18_FinishObserved ==
  [][FinishHandled =>
       /\ Decode(Last(handled')).finish_reason = "stop" => toolCallFinishReceived'
       /\ bufferedContent' = bufferedContent
       /\ (~(hasTools /\ toolCallFragments # EmptyMap) /\ ~Decode(Last(handled')).done)
            => (out' = out /\ ~streamEnded' /\ pc' = "reading")]_vars

\* this step handled a payload without error
PayloadHandled ==
  /\ pc = "reading"
  /\ Len(handled') = Len(handled) + 1
  /\ ~_hasError(Decode(Last(handled')))

\* the payload handled in this step is of phase answer or other and carries usage
CarriesUsage ==
  /\ Decode(Last(handled')).phase \in {"answer", "other"}
  /\ Decode(Last(handled')).usage # Null

\* C19 (stream translator): the recorded usage is the usage of the most recent
\* answer-phase or other-phase payload that carried one, with or without text:
\* such a payload records its usage, any other payload leaves the record alone.
C19_LastUsageWins ==
  [][PayloadHandled =>
       toolUsage' = IF CarriesUsage THEN Decode(Last(handled')).usage ELSE toolUsage]_vars

\* an answer-phase payload whose only text is edit_content
EditOnly(d) ==
  /\ d.phase = "answer"
  /\ d.edit_content # ""
  /\ d.delta_content = ""
  /\ d.finish_reason = ""
  /\ ~d.done

\* a content chunk extracted from the edit_content of a payload handled so far
\* has been emitted
InitialAnswerSent ==
  \E i \in 1..Len(handled) :
    /\ EditOnly(Decode(handled[i]))
    /\ \E j \in 1..Len(out) :
         out[j] = ContentChunk(_extractEditContent(Decode(handled[i]).edit_content))

\* C20: with tool mode inactive, once a content chunk extracted from
\* edit_content has been emitted, a later answer-phase payload carrying only
\* edit_content produces no output: at most one such chunk per run.
C20_InitialAnswerOnce ==
  [][(PayloadHandled /\ ~hasTools /\ InitialAnswerSent
        /\ EditOnly(Decode(Last(handled'))))
       => out' = out]_vars

(***************************************************************************)
(* The content emission policy of the stream translator (Spec)             *)
(***************************************************************************)
\* the payload handled in this step, as the translator sees it
Handled == Decode(Last(handled'))

\* the chunks this step emitted
NewChunks == SubSeq(out', Len(out) + 1, Len(out'))

\* the text of a payload: delta_content || edit_content
PayloadText(d) == IF d.delta_content # "" THEN d.delta_content ELSE d.edit_content

\* no chunk of this step carries text
NoTextChunk == \A i \in 1..Len(NewChunks) : NewChunks[i].kind \notin {"content", "reasoning_content"}

\* the policy for the answer-phase payloads that satisfy `answers`
EmissionPolicy(answers) ==
  /\ (hasTools /\ pc' = "reading") => out' = out
  /\ (hasTools /\ answers) => bufferedContent' = bufferedContent \o PayloadText(Handled)
  /\ (~hasTools /\ answers /\ Handled.delta_content # "")
       => /\ \E i \in 1..Len(NewChunks) : NewChunks[i] = ContentChunk(Handled.delta_content)
          /\ bufferedContent' = bufferedContent
  /\ (~hasTools /\ Handled.phase = "thinking" /\ Handled.delta_content # ""
         /\ pc' = "reading")
       => NewChunks \in {<<>>, <<ReasoningChunk(Handled.delta_content)>>}
  /\ (~hasTools /\ Handled.phase \notin {"answer", "thinking"}) => NoTextChunk

\* C21 (as amended): while tool mode is active no step before the closing step
\* emits a chunk, and the text of an answer-phase payload without a finish
\* value is appended to the buffer; while tool mode is inactive the delta of
\* such a payload is emitted in its step as a content chunk, a thinking-phase
\* delta is emitted in its step as a reasoning chunk when the thinking transform
\* returns text, and a payload of any other phase emits no text.
C21_EmissionPolicy ==
  [][PayloadHandled =>
       EmissionPolicy(Handled.phase = "answer" /\ Handled.finish_reason = "")]_vars

\* tool mode active: two answer texts buffered in arrival order, nothing emitted
C21_BufferedInOrder ==
  /\ hasTools
  /\ pc = "reading"
  /\ Len(handled) = 2
  /\ bufferedContent = "HiOk"
  /\ out = <<RoleChunk>>

\* C21 (as stated): the same policy for every answer-phase payload.
C21_EveryAnswerText ==
  [][PayloadHandled => EmissionPolicy(Handled.phase = "answer")]_vars

(***************************************************************************)
(* The tool_call phase in the stream translator (Spec)                     *)
(***************************************************************************)
\* this step handled a tool_call-phase payload that is not the done signal
ToolCallHandled ==
  /\ PayloadHandled
  /\ Handled.phase = "tool_call"
  /\ ~Handled.done

\* C22: a tool_call-phase payload emits nothing; without edit_content it leaves
\* the whole run state unchanged (buffer, usage, tool-mode flag, fragment map,
\* finish-observed flag, terminated flag); with edit_content it changes only
\* the entry of the fragment map at its edit_index (0 when absent).
C22_ToolCallFrame ==
  [][ToolCallHandled =>
       /\ out' = out
       /\ UNCHANGED <<bufferedContent, toolUsage, hasTools, toolCallFinishReceived,
                      streamEnded>>
       /\ toolCallFragments' =
            IF Handled.edit_content = "" THEN toolCallFragments
            ELSE MapSet(toolCallFragments, EditIndex(Handled), Handled.edit_content)]_vars

(***************************************************************************)
(* The close of a reassembly that resolved invocations (SpecFragments)     *)
(***************************************************************************)
\* how many invocations the run announced
Announced == Len(ToolChunks(out, "started"))

\* the i-th pair of increments: started (id, name, empty arguments), then the
\* arguments increment of the same id and index
IncrementPair(i) ==
  /\ out[2 * i].kind = "tool_calls"
  /\ out[2 * i].part = "started"
  /\ out[2 * i].index = i - 1
  /\ out[2 * i].arguments = ""
  /\ out[2 * i + 1].kind = "tool_calls"
  /\ out[2 * i + 1].part = "arguments"
  /\ out[2 * i + 1].index = i - 1
  /\ out[2 * i + 1].id = out[2 * i].id

\* C23: a run closed with resolved invocations emitted, after the role chunk,
\* for each invocation in resolved order its started increment immediately
\* followed by its arguments increment (full argument text, same id and index);
\* then at most one chunk of buffered text; then the only finish chunk, with
\* reason "tool_calls", immediately followed by [DONE], the last chunk.
C23_IncrementsThenFinish ==
  (pc = "returned" /\ Announced > 0) =>
    /\ out[1] = RoleChunk
    /\ Len(out) \in {2 * Announced + 3, 2 * Announced + 4}
    /\ \A i \in 1..Announced : IncrementPair(i)
    /\ \A now \in Clock : StreamInvocations(out) = ResolveToolCalls(toolCallFragments, now)
    /\ Len(out) = 2 * Announced + 4 => out[2 * Announced + 2].kind = "content"
    /\ out[Len(out) - 1] = FinishChunk("tool_calls", toolUsage)
    /\ Last(out) = DoneSentinel
    /\ Cardinality(FinishChunks) = 1

\* two invocations were announced, then the buffered text, the finish chunk
\* and [DONE]
C23_TwoInvocationsClosed ==
  /\ pc = "returned"
  /\ Announced = 2
  /\ Len(out) = 8
  /\ out[2].id = "call_1" /\ out[3].id = "call_1"
  /\ out[4].id = "call_2" /\ out[5].id = "call_2"
  /\ out[6] = ContentChunk("Hi")
  /\ out[7].kind = "finish"

(***************************************************************************)
(* The second fallback of the aggregate translator (SpecFragments)         *)
(***************************************************************************)
\* the aggregate state holding the two fragments of the values, finish observed
WithFragments(values) ==
  [ToolModeNsState EXCEPT
     !.nsToolCallFragments = <<<<0, values[1].edit_content>>, <<1, values[2].edit_content>>>>,
     !.nsToolCallFinishReceived = TRUE]

\* the second fallback run when the reassembly block by block resolved nothing
FallbackIfEmpty(byBlock, now, rnd) ==
  IF byBlock.nsToolOrder = <<>> THEN _processNonStreamToolCallFragments(byBlock, now, rnd)
  ELSE byBlock

\* the invocations after the reassembly and, when it is empty, the fallback
RecoveredCalls(values, now, rnd) ==
  Document(FallbackIfEmpty(_processNonStreamMultipleToolCalls(WithFragments(values), now),
                           now, rnd)).tool_calls

\* C24: when the finish signal was observed and the fragments resolve to no
\* invocation block by block, the document of the aggregate translator lists
\* the invocation the second fallback recovers from them.
C24_FallbackRecovers ==
  (pc = "returned" /\ handled \in FinishedSplitFeeds) =>
    \A now \in Clock, rnd \in RandomNumbers :
      \E doc \in {NsRun(ToolModeNsState, handled, now)} :
        doc # None /\ doc[1].tool_calls = RecoveredCalls(handled, now, rnd)

(***************************************************************************)
(* The invocations one run delivers (SpecFragments)                        *)
(***************************************************************************)
\* no two of the invocations have the same id
DistinctIds(invocations) ==
  \A i, j \in 1..Len(invocations) : i # j => invocations[i].id # invocations[j].id

\* the document of the aggregate run over the payloads lists no id twice
DocumentIdsDistinct ==
  \A now \in Clock :
    \E doc \in {NsRun(ToolModeNsState, handled, now)} :
      doc # None /\ DistinctIds(DocumentInvocations(doc[1]))

\* C25: the invocations one run delivers never hold an id twice: neither the
\* started increments of the stream translator nor the tool_calls list of the
\* document the aggregate translator builds from the same payloads.
C25_OneEntryPerId ==
  (pc = "returned" /\ feed = <<>>) =>
    (DistinctIds(ToolChunks(out, "started")) /\ DocumentIdsDistinct)

(***************************************************************************)
(* Faults of the stream run (Spec)                                         *)
(***************************************************************************)
\* the step is a fault raised by the iteration: reader.read() rejects, or the
\* response has no body
IterationFault == ReadFault \/ BodyMissing

\* the step is a fault raised by the translation of the payload it handles
TranslationFault ==
  /\ pc = "reading"
  /\ Len(handled') = Len(handled) + 1
  /\ \E ext \in ExtOutcomes, now \in Clock :
       /\ LoopBody(RunState, Last(handled'), sentInitialAnswer, ext, now).exit = "throw"
       /\ HandleValue(Last(handled'), ext, now)

\* the output ends with the stop close and holds no other finish chunk or sentinel
ClosedOnceByStop ==
  /\ Len(NewChunks) >= 2
  /\ SubSeq(out', Len(out') - 1, Len(out')) = StopClose
  /\ \A i \in 1..(Len(out') - 2) : out'[i].kind # "finish" /\ out'[i] # DoneSentinel

\* the fault stays inside the run, which is closed by it when it was open
CaughtAndClosed ==
  /\ pc' = "returned"
  /\ streamEnded'
  /\ IF streamEnded THEN out' = out ELSE ClosedOnceByStop

\* C26: a fault raised while the stream run iterates or translates the
\* upstream stream is caught inside the run; a run not yet closed then emits
\* exactly one stop finish chunk followed by [DONE], a closed run emits
\* nothing more.
C26_FaultClosesOnce == [][(IterationFault \/ TranslationFault) => CaughtAndClosed]_vars

\* a run closed by the catch block after one answer text went out: the read that
\* followed the first payload failed
C26_ClosedAfterAnswer ==
  /\ pc = "returned"
  /\ ~hasTools
  /\ Len(handled) = 1
  /\ Decode(handled[1]).phase = "answer"
  /\ Decode(handled[1]).finish_reason = ""
  /\ Len(out) = 4
  /\ out[2].kind = "content"
  /\ SubSeq(out, 3, 4) = StopClose

(***************************************************************************)
(* The document of the aggregate run (SpecAgg)                             *)
(***************************************************************************)
\* the aggregate run ends in this step: the read loop is entered only after a
\* success status of the upstream call
NsRunEnds == pc = "reading" /\ pc' # "reading"

\* a document with one message, a finish reason and a usage block
WellFormedDocument(doc) ==
  /\ doc.status = 200
  /\ doc.finish_reason \in {"stop", "tool_calls"}
  /\ doc.usage # Null
  /\ doc.tool_calls # None => doc.content = None

\* handle resolved to a well-formed document
ReturnsDocument == response' # None /\ WellFormedDocument(response'[1])

\* C27: an aggregate run whose upstream call returned a success status
\* always returns one well-formed document, whatever payloads arrive and also
\* when a fault is raised while the upstream stream is iterated.
C27_AlwaysADocument == [][NsRunEnds => ReturnsDocument]_vars

(***************************************************************************)
(* The accumulations of one reassembly (SpecFragments)                     *)
(***************************************************************************)
\* the accumulations the fragments of the run form, in index order
Accumulations == Accumulate(ContentArray(toolCallFragments), "", <<>>)

\* the invocations the blocks of one accumulation hold
InvocationsOf(accumulation, now) ==
  CollectToolCalls(GlmBlockMatches(accumulation, 1), now, <<>>)

\* the ids of the invocations
IdsOf(invocations) == { invocations[i].id : i \in 1..Len(invocations) }

\* the ids held by the second and later accumulations only
LaterOnlyIds(now) ==
  UNION { IdsOf(InvocationsOf(Accumulations[k], now)) : k \in 2..Len(Accumulations) }
    \ IdsOf(InvocationsOf(Accumulations[1], now))

\* the stream announced the invocations of the first accumulation and no other
StreamFromFirstOnly(now) ==
  /\ StreamInvocations(out) = InvocationsOf(Accumulations[1], now)
  /\ IdsOf(StreamInvocations(out)) \cap LaterOnlyIds(now) = {}

\* the document of the aggregate run over the same payloads lists invocations
\* of the first accumulation and no other
DocumentFromFirstOnly(now) ==
  \E doc \in {NsRun(ToolModeNsState, handled, now)} :
    /\ doc # None
    /\ IdsOf(DocumentInvocations(doc[1])) = IdsOf(InvocationsOf(Accumulations[1], now))
    /\ IdsOf(DocumentInvocations(doc[1])) \cap LaterOnlyIds(now) = {}

ReaderLetGo == pc = "returned" /\ ~reader.held

\* no step of the run can follow: no payload is handled, no read is requested
NothingFollows == ~ENABLED StreamNext

\* C29: `data: [DONE]` is the last action of a stream run: once it is in the
\* output it is the last emission, handle has returned, the reader has been
\* let go and no step that handles a payload, reads from the upstream or emits
\* a chunk can follow, whatever the upstream still holds.
C29_DoneIsLast ==
  Sentinels # {} => (Sentinels = {Len(out)} /\ ReaderLetGo /\ NothingFollows)

\* a run closed at its first payload, the done signal, while the upstream could
\* deliver more: the reader was acquired and released
C29_ClosedWithMoreUpstream ==
  /\ Len(handled) = 1
  /\ Len(handled) < MaxEvents
  /\ Decode(handled[1]).done
  /\ out = <<RoleChunk>> \o StopClose
  /\ reader = [held |-> FALSE, acquired |-> 1, released |-> 1]
  /\ pc = "returned"

====
